---- MODULE Spec2Model ----
(***************************************************************************)
(* A model of the market-maker bot of octarine-examples: the wallet        *)
(* manager's nonce sequencer (services/wallet/index.ts), the RFQ bidding   *)
(* loop with its dedup map (loops/bidding.ts), withRetry, the token        *)
(* approvals, the stream client (services/api/websocket.ts), the           *)
(* notification service and the process's startup and shutdown (index.ts). *)
(*                                                                         *)
(* JavaScript runs one task at a time and yields only at an await, so an   *)
(* action of this model is the code between two awaits.                    *)
(***************************************************************************)
EXTENDS Integers, Sequences, FiniteSets, Bags, TLC

\* ------------------------------------------------------------------ bounds
\* Number of executeTransaction calls made on the one WalletManager.
MaxCalls == 3
\* Largest transaction count the ledger starts with.
MaxBase == 1
\* approveTokenToExchangeProxy calls made on the one WalletManager.
MaxApprovals == 2
\* Transactions another sender puts on the same account.
MaxRivalTxs == 1
\* Largest maxAttempts of the options withRetry is called with.
MaxAttemptsBound == 3
\* Last value of the clock.
MaxTime == 2
\* processSingleRequest calls the stream handler has in flight at once.
MaxWsTasks == 1
\* Sockets the stream client makes in a run.
MaxSockets == 3

\* The notify() calls of a run.
MaxNotifications == 3

\* ------------------------------------------------------------------ state
VARIABLES
    \* --- WalletManager (services/wallet/index.ts)
    currentNonce,   \* this.currentNonce: a number, or Null
    mutexHolder,    \* calls that hold this.mutex (a set: exclusion is a property)
    mutexQueue,     \* calls waiting on this.mutex, oldest first
    wpc,            \* per call: its position in executeTransaction
    fnOut,          \* per call: what the callback fn settled with
    outcome,        \* per call: what executeTransaction settled with
    \* --- the ledger behind the provider
    ledgerPending,  \* getTransactionCount(address, 'pending')
    base,           \* the ledger's count when the calls start
    \* --- history of the run
    callOrder,      \* calls in the order executeTransaction was called
    entered,        \* calls in the order they entered the exclusive section
    handed,         \* <<[call, nonce, synced]>>: nonces passed to fn, in order
    queryLog,       \* values returned by the ledger queries, in order
    allConcurrent,  \* every call so far was made before any call had settled
    \* --- RFQ bidding loop (loops/bidding.ts)
    processedRequests, \* the Map<string, number>, as <<[key, ts]>> in insertion order
    now,            \* Date.now()
    pollPc,         \* where startBiddingLoop's while (true) body is waiting
    pollBatch,      \* requests left in `for (const request of requests)`; the head is in process
    pollTask,       \* the await processSingleRequest of the poll path is at
    wonList,        \* bids left in monitorWonBids' `for (const bid of wonBids)`
    wsTasks,        \* the bag of processSingleRequest calls handleWebSocketEvent started
    wsTransform,    \* requests with a callTransform started by a bid_accepted event
    \* --- the Octarine API server
    bidsPlaced,     \* requests the server holds a bid of ours for
    accepted,       \* requests whose bid was accepted
    transformed,    \* requests whose transform was executed
    \* --- history of the run
    lastStarted,    \* requests the last step called processSingleRequest for
    dedupHit,       \* requests the last step skipped because the map has them
    justSwept,      \* the last step ended with cleanupProcessedRequests
    transformNote,  \* the callTransform call that settled in the last step
    \* --- cleanupProcessedRequests on its own
    sweepInput,     \* the map a sweep taken on its own was called with
    \* --- one withRetry call (utils/retry.ts)
    rOpts,          \* options: RetryOptions
    rPc,            \* "call": awaiting fn(); "wait": awaiting delay(); "done"; "idle"
    rAttempt,       \* attempt
    rDelay,         \* currentDelay
    rLog,           \* what each invocation of fn settled with, in order
    rWaits,         \* the arguments of the delay() calls, in order
    rOutcome,       \* what withRetry settled with
    \* --- approveTokenToExchangeProxy calls (services/wallet/approvals.ts)
    apc,            \* per call: "idle", "started", "waiting" (for the receipt), "done"
    aOut,           \* per call: what approveTokenToExchangeProxy settled with
    \* --- OctarineWebSocket (services/api/websocket.ts)
    ws,             \* this.ws: a socket, or NoSocket
    isConnected,    \* this.isConnected
    shouldReconnect,  \* this.shouldReconnect
    reconnectTimeout, \* this.reconnectTimeout: a timer's id, or NoTimer
    \* --- the runtime around the client
    sockets,        \* per socket made by new WebSocket(url): its state, its connect()
                    \* promise (who awaits it, and whether it threw there), whether
                    \* close() was called before its 'close' event, and the subscribe
                    \* messages sent on it
    timers,         \* the armed timers: set by setTimeout, neither fired nor cleared
    timersMade,     \* the number of setTimeout calls
    clearedTimers,  \* the timers clearTimeout disarmed
    \* --- history of the run
    disconnected,   \* disconnect() was called, and connect() was not called since
    disconnects,    \* the number of disconnect() calls in a row that the last steps were (up to 2)
    lastOp,         \* the last step of the client and what its caller or listeners saw of it
    \* --- NotificationService (services/notifications/index.ts)
    notifiers,      \* this.notifiers, as their number; this.enabled is notifiers > 0
    queue,          \* this.queue
    isProcessing,   \* this.isProcessing
    drain,          \* the processQueue calls that are in their loops, and where
    \* --- history of the run
    notified,       \* the number of notify() calls; the payloads are numbered by it
    sendLog,        \* the notifier.send calls that settled, in order, and how
    \* --- the process (index.ts)
    wsEnabled,      \* config.wsEnabled && config.wsUrl
    health,         \* requireHealthy in main: "pending", "ok" (resolved), "failed" (threw)
    shutdownArmed,  \* a timer of the shutdown handler is armed
    exitCode        \* the code process.exit was called with, or NoExit

walletVars == <<currentNonce, mutexHolder, mutexQueue, wpc, fnOut, outcome,
                ledgerPending, base, callOrder, entered, handed, queryLog,
                allConcurrent>>

bidVars == <<processedRequests, now, pollPc, pollBatch, pollTask, wonList,
             wsTasks, wsTransform, bidsPlaced, accepted, transformed,
             lastStarted, dedupHit, justSwept, transformNote>>

sweepVars == <<sweepInput>>

retryVars == <<rOpts, rPc, rAttempt, rDelay, rLog, rWaits, rOutcome>>

approveVars == <<apc, aOut>>

streamVars == <<ws, isConnected, shouldReconnect, reconnectTimeout, sockets,
                timers, timersMade, clearedTimers, disconnected, disconnects, lastOp>>

notifyVars == <<notifiers, queue, isProcessing, drain, notified, sendLog>>

mainVars == <<wsEnabled, health, shutdownArmed, exitCode>>

vars == <<walletVars, bidVars, sweepVars, retryVars, approveVars, streamVars,
          notifyVars, mainVars>>

\* What the steps of each component leave alone.
beyondWallet == <<bidVars, sweepVars, retryVars, approveVars, streamVars,
    notifyVars, mainVars>>
beyondBid == <<walletVars, sweepVars, retryVars, approveVars, streamVars,
    notifyVars, mainVars>>
beyondRetry == <<walletVars, bidVars, sweepVars, approveVars, streamVars,
    notifyVars, mainVars>>
beyondApprove == <<bidVars, sweepVars, retryVars, streamVars,
    notifyVars, mainVars>>
beyondStream == <<walletVars, bidVars, sweepVars, retryVars, approveVars,
    notifyVars, mainVars>>
beyondNotify == <<walletVars, bidVars, sweepVars, retryVars, approveVars, streamVars,
    mainVars>>
beyondMain == <<walletVars, bidVars, sweepVars, retryVars, approveVars, streamVars,
    notifyVars>>

\* ------------------------------------------------------------ WalletManager
\* currentNonce: number | null = null
Null == -1

Calls == 1..MaxCalls

NoValue == [kind |-> "none", n |-> 0, msg |-> ""]
TxResponse(n) == [kind |-> "tx", n |-> n, msg |-> ""]
Failure(n, msg) == [kind |-> "error", n |-> n, msg |-> msg]
Pending == [status |-> "pending", v |-> NoValue]

\* The nonce fn was called with, for a call whose fn has been invoked.
HandedTo(c) == {i \in 1..Len(handed) : handed[i].call = c}
NonceOf(c) == handed[CHOOSE i \in HandedTo(c) : TRUE].nonce

\* Mutex.acquire of async-mutex: the lock is granted at once when it is free,
\* otherwise the caller is queued.
MutexIsFree_Always == TRUE

MutexIsFree == mutexHolder = {}

\* Mutex.release: the oldest waiter, if any, is granted the lock.
NextTicket_Newest(q) == q[Len(q)]

NextTicket(q) == q[1]

Granted == IF mutexQueue = <<>> THEN {} ELSE {NextTicket(mutexQueue)}

\* Call c leaves runExclusive (its finally releases), settled with out.
Leave(c, out) ==
    /\ outcome' = [outcome EXCEPT ![c] = out]
    /\ mutexHolder' = (mutexHolder \ {c}) \cup Granted
    /\ mutexQueue' = SelectSeq(mutexQueue, LAMBDA x : x \notin Granted)
    /\ entered' = entered \o SelectSeq(mutexQueue, LAMBDA x : x \in Granted)
    /\ wpc' = [d \in Calls |-> IF d = c THEN "done"
                               ELSE IF d \in Granted THEN "entered" ELSE wpc[d]]

\* What executeTransaction settles with: `return result` / `throw error`.
Returned(result) == [status |-> "resolved", v |-> result]
Rethrown(error) == [status |-> "rejected", v |-> error]

\* The cache after fn succeeded with nonce n, and after it failed.
NonceAfterSuccess_Same(n) == n

NonceAfterSuccess(n) == n + 1

NonceAfterFailure_Keep(n) == n

NonceAfterFailure_Skip(n) == n + 1

NonceAfterFailure(n) == Null

\* The ledger takes a transaction whose nonce is not used yet; the pending
\* count advances when the nonce is the next one.
LedgerAccepts(n) == n >= ledgerPending
LedgerAfter(n) == IF n = ledgerPending THEN ledgerPending + 1 ELSE ledgerPending

\* executeTransaction is called: this.mutex.runExclusive(...) acquires.
ExecuteTransaction(c) ==
    /\ wpc[c] = "idle"
    /\ UNCHANGED beyondWallet
    /\ callOrder' = Append(callOrder, c)
    /\ allConcurrent' = (allConcurrent /\ \A d \in Calls : wpc[d] # "done")
    /\ IF MutexIsFree
       THEN /\ mutexHolder' = mutexHolder \cup {c}
            /\ entered' = Append(entered, c)
            /\ wpc' = [wpc EXCEPT ![c] = "entered"]
            /\ mutexQueue' = mutexQueue
       ELSE /\ mutexQueue' = Append(mutexQueue, c)
            /\ wpc' = [wpc EXCEPT ![c] = "waiting"]
            /\ UNCHANGED <<mutexHolder, entered>>
    /\ UNCHANGED <<currentNonce, fnOut, outcome, ledgerPending, base, handed, queryLog>>

\* The section starts: a null cache awaits syncNonce, a known one is passed to fn.
EnterSection(c) ==
    /\ wpc[c] = "entered"
    /\ UNCHANGED beyondWallet
    /\ IF currentNonce = Null
       THEN /\ wpc' = [wpc EXCEPT ![c] = "sync"]
            /\ handed' = handed
       ELSE /\ wpc' = [wpc EXCEPT ![c] = "fn"]
            /\ handed' = Append(handed, [call |-> c, nonce |-> currentNonce, synced |-> FALSE])
    /\ UNCHANGED <<currentNonce, mutexHolder, mutexQueue, fnOut, outcome,
                   ledgerPending, base, callOrder, entered, queryLog, allConcurrent>>

\* syncNonce resolves: the pending count is cached, then passed to fn.
SyncNonceDone(c) ==
    /\ wpc[c] = "sync"
    /\ UNCHANGED beyondWallet
    /\ currentNonce' = ledgerPending
    /\ queryLog' = Append(queryLog, ledgerPending)
    /\ handed' = Append(handed, [call |-> c, nonce |-> currentNonce', synced |-> TRUE])
    /\ wpc' = [wpc EXCEPT ![c] = "fn"]
    /\ UNCHANGED <<mutexHolder, mutexQueue, fnOut, outcome, ledgerPending, base,
                   callOrder, entered, allConcurrent>>

\* syncNonce rejects: the error leaves runExclusive, which releases the lock.
SyncNonceFails(c) ==
    /\ wpc[c] = "sync"
    /\ UNCHANGED beyondWallet
    /\ Leave(c, Rethrown(Failure(0, "rpc")))
    /\ UNCHANGED <<currentNonce, fnOut, ledgerPending, base, callOrder, handed, queryLog, allConcurrent>>

\* fn resolves: the transaction was broadcast with the nonce it was given.
FnSucceeds(c) ==
    /\ wpc[c] = "fn"
    /\ UNCHANGED beyondWallet
    /\ LedgerAccepts(NonceOf(c))
    /\ ledgerPending' = LedgerAfter(NonceOf(c))
    /\ fnOut' = [fnOut EXCEPT ![c] = TxResponse(NonceOf(c))]
    /\ currentNonce' = NonceAfterSuccess(NonceOf(c))
    /\ Leave(c, Returned(fnOut'[c]))
    /\ UNCHANGED <<base, callOrder, handed, queryLog, allConcurrent>>

\* fn rejects, before anything was broadcast ("pre"; "nonce" when the ledger
\* refused the nonce as already used) or after ("post").
FnFails(c, msg) ==
    /\ wpc[c] = "fn"
    /\ UNCHANGED beyondWallet
    /\ msg = "post" => LedgerAccepts(NonceOf(c))
    /\ msg = "nonce" => ~LedgerAccepts(NonceOf(c))
    /\ ledgerPending' = IF msg = "post" THEN LedgerAfter(NonceOf(c)) ELSE ledgerPending
    /\ fnOut' = [fnOut EXCEPT ![c] = Failure(NonceOf(c), msg)]
    /\ currentNonce' = NonceAfterFailure(NonceOf(c))
    /\ Leave(c, Rethrown(fnOut'[c]))
    /\ UNCHANGED <<base, callOrder, handed, queryLog, allConcurrent>>

\* ------------------------------------------------------------------ errors
\* Errors as the classifiers read them: code, response.status (0: no
\* response) and the message as its words; class says what the failure was.
Err(class, code, status, message) ==
    [class |-> class, code |-> code, status |-> status, message |-> message]

\* What axios rejects with.
HttpError(status) ==
    Err("http", IF status >= 500 THEN "ERR_BAD_RESPONSE" ELSE "ERR_BAD_REQUEST", status,
        <<"Request", "failed", "with", "status", "code">>)
ApiErrors ==
    {Err("reset", "ECONNRESET", 0, <<"socket", "hang", "up">>),
     Err("timeout", "ETIMEDOUT", 0, <<"connect", "ETIMEDOUT">>),
     Err("timeout", "ECONNABORTED", 0, <<"timeout", "of", "30000ms", "exceeded">>),
     Err("dns", "ENOTFOUND", 0, <<"getaddrinfo", "ENOTFOUND">>),
     Err("refused", "ECONNREFUSED", 0, <<"connect", "ECONNREFUSED">>)}
        \cup {HttpError(status) : status \in {400, 404, 429, 500, 503}}

\* What ethers' sendTransaction rejects with.
TxErrors ==
    {Err("nonce", "NONCE_EXPIRED", 0, <<"Nonce", "has", "already", "been", "used">>),
     Err("underpriced", "REPLACEMENT_UNDERPRICED", 0, <<"replacement", "fee", "too", "low">>),
     Err("network", "NETWORK_ERROR", 0, <<"could", "not", "detect", "network">>),
     Err("timeout", "TIMEOUT", 0, <<"timeout">>),
     Err("funds", "INSUFFICIENT_FUNDS", 0, <<"insufficient", "funds">>),
     Err("revert", "CALL_EXCEPTION", 0, <<"transaction", "failed">>)}

\* What an operation of no particular kind rejects with.
PlainErrors == {Err("plain", "", 0, <<"boom">>)}

\* String.prototype.toLowerCase, word by word, and String.prototype.includes
\* for a phrase of whole words.
LowerWord(w) ==
    CASE w = "Nonce" -> "nonce"
      [] w = "Request" -> "request"
      [] w = "ETIMEDOUT" -> "etimedout"
      [] w = "ENOTFOUND" -> "enotfound"
      [] w = "ECONNREFUSED" -> "econnrefused"
      [] OTHER -> w
ToLowerCase(message) == [i \in 1..Len(message) |-> LowerWord(message[i])]
Includes(message, phrase) ==
    \E i \in 1..(Len(message) - Len(phrase) + 1) :
        SubSeq(message, i, i + Len(phrase) - 1) = phrase

\* ------------------------------------------------------- RFQ bidding loop
\* The requests the API serves. r1 stays biddable; r2 is too close to its
\* expiry from time 2 on.
Ids == {"r1", "r2"}

\* const CLEANUP_INTERVAL_MS = 60 * 60 * 1000, as one tick of the clock.
CLEANUP_INTERVAL_MS == 1
\* const MAX_PROCESSED_ENTRIES = 1000, scaled to the four keys of the model.
MAX_PROCESSED_ENTRIES == 2
\* `timeLeft < 30` in shouldBidOnRequest, in clock ticks.
MIN_TIME_LEFT == 1

Request(id) ==
    [requestId |-> id,
     redeemAsset |-> "usdc",
     redeemAmount |-> 5,
     chainId |-> 1,
     expiry |-> IF id = "r1" THEN MaxTime + MIN_TIME_LEFT ELSE 1 + MIN_TIME_LEFT,
     hasRfqOrder |-> TRUE]

\* getConfig(): acceptedTokens, minBidAmountWei, supportedChains.
Cfg == [acceptedTokens |-> {"usdc"}, minBidAmountWei |-> 3, supportedChains |-> {1}]

shouldBidOnRequest(request, cfg, t) ==
    /\ request.redeemAsset \in cfg.acceptedTokens
    /\ ~(request.redeemAmount < cfg.minBidAmountWei)
    /\ request.chainId \in cfg.supportedChains
    /\ ~(request.expiry - t < MIN_TIME_LEFT)

\* processSingleRequest returns before its first await: the request is not
\* to be bid on, or carries no metadata.rfqOrder.
ReturnsEarly_Never(id, t) == FALSE

ReturnsEarly(id, t) ==
    ~shouldBidOnRequest(Request(id), Cfg, t) \/ ~Request(id).hasRfqOrder

TransformKey(id) == "transform-" \o id

\* Map.has, Map.set (a key already present keeps its place), Map.delete.
Has(map, key) == \E i \in 1..Len(map) : map[i].key = key
MapSet(map, key, ts) ==
    IF Has(map, key)
    THEN [i \in 1..Len(map) |-> IF map[i].key = key THEN [key |-> key, ts |-> ts] ELSE map[i]]
    ELSE Append(map, [key |-> key, ts |-> ts])
MapDeleteAll(map, keys) == SelectSeq(map, LAMBDA e : e.key \notin keys)

\* Array.prototype.sort((a, b) => a[1] - b[1]): stable, ascending by timestamp.
RECURSIVE InsertByTs(_, _)
InsertByTs(sorted, e) ==
    IF sorted = <<>> THEN <<e>>
    ELSE IF sorted[Len(sorted)].ts <= e.ts THEN Append(sorted, e)
    ELSE Append(InsertByTs(SubSeq(sorted, 1, Len(sorted) - 1), e), sorted[Len(sorted)])

\* No sort: the entries stay in insertion order.
SortByTs_Unsorted(entries) == entries

RECURSIVE SortByTs(_)
SortByTs(entries) ==
    IF entries = <<>> THEN <<>>
    ELSE InsertByTs(SortByTs(SubSeq(entries, 1, Len(entries) - 1)), entries[Len(entries)])

\* A sweep that lets an entry live one tick longer.
IsStale_ATickLate(ts, t) == ts < t - CLEANUP_INTERVAL_MS - 1

\* `if (timestamp < oneHourAgo)`: the entry is deleted.
IsStale(ts, t) == ts < t - CLEANUP_INTERVAL_MS

\* A sweep that makes room for the next entry: it evicts down to one entry
\* under the maximum.
cleanupProcessedRequests_RoomForOne(map, t) ==
    LET fresh == SelectSeq(map, LAMBDA e : ~IsStale(e.ts, t))
        entries == SortByTs(fresh)
        toRemove == IF Len(fresh) > MAX_PROCESSED_ENTRIES - 1
                    THEN {entries[i].key : i \in 1..(Len(entries) - MAX_PROCESSED_ENTRIES + 1)}
                    ELSE {}
    IN  MapDeleteAll(fresh, toRemove)

\* cleanupProcessedRequests at time t.
cleanupProcessedRequests(map, t) ==
    LET fresh == SelectSeq(map, LAMBDA e : ~IsStale(e.ts, t))
        entries == SortByTs(fresh)
        toRemove == IF Len(fresh) > MAX_PROCESSED_ENTRIES
                    THEN {entries[i].key : i \in 1..(Len(entries) - MAX_PROCESSED_ENTRIES)}
                    ELSE {}
    IN  MapDeleteAll(fresh, toRemove)

\* A stream handler that takes every request for new.
WsSeen_Never(id) == FALSE

\* handleWebSocketEvent's `if (processedRequests.has(request.requestId)) return`.
WsSeen(id) == Has(processedRequests, id)

\* The polling loop's `if (processedRequests.has(request.requestId)) continue`.
PollSeen(map, id) == Has(map, id)

\* The for loop of startBiddingLoop from `batch` on, up to its first real
\* await: seen requests are skipped, requests that return early are processed
\* and marked at once, and the first other request is left at the head of rest.
RECURSIVE PollScan(_, _, _)
PollScan(batch, map, t) ==
    IF batch = <<>>
    THEN [map |-> map, rest |-> <<>>, hits |-> {}, early |-> {}]
    ELSE LET id == Head(batch) IN
         IF PollSeen(map, id)
         THEN LET r == PollScan(Tail(batch), map, t) IN [r EXCEPT !.hits = @ \cup {id}]
         ELSE IF ReturnsEarly(id, t)
         THEN LET r == PollScan(Tail(batch), MapSet(map, id, t), t)
              IN  [r EXCEPT !.early = @ \cup {id}]
         ELSE [map |-> map, rest |-> batch, hits |-> {}, early |-> {}]

\* The for loop of monitorWonBids up to its first await: bids whose transform
\* key is in the map are skipped.
RECURSIVE WonScan(_, _)
WonScan(list, map) ==
    IF list = <<>> THEN <<>>
    ELSE IF Has(map, TransformKey(Head(list))) THEN WonScan(Tail(list), map)
    ELSE list

\* getWonBids' answer: the accepted bids, in a fixed order.
IdOrder == <<"r1", "r2">>
SeqOf(S) == SelectSeq(IdOrder, LAMBDA x : x \in S)

\* getPendingRequests' answers.
Batches == {<<>>, <<"r1">>, <<"r2">>, <<"r1", "r2">>, <<"r2", "r1">>}

\* A processSingleRequest call of the stream handler and the await it is at.
Task(id, stage) == [id |-> id, stage |-> stage]
WsAt(id, stage) == CopiesIn(Task(id, stage), wsTasks) > 0
WsMoves(id, from, to) == (wsTasks (-) SetToBag({Task(id, from)})) (+) SetToBag({Task(id, to)})
WsInFlight == BagCardinality(wsTasks)

\* What a step leaves in the variables that describe the step itself; no step
\* of the bidding loop touches the wallet manager's state here.
NoNote == [id |-> "none"]

Notes(started, hits, swept, note) ==
    /\ lastStarted' = started
    /\ dedupHit' = hits
    /\ justSwept' = swept
    /\ transformNote' = note
    /\ UNCHANGED beyondBid

\* The same for a step in which no callTransform call settled.
StepNotes(started, hits, swept) == Notes(started, hits, swept, NoNote)

\* The poll path goes on with `batch` after whatever precedes it set `map`:
\* to the next request that needs an await, or into monitorWonBids.
PollGoesOn(batch, map) ==
    LET r == PollScan(batch, map, now)
    IN  /\ processedRequests' = r.map
        /\ pollBatch' = r.rest
        /\ IF r.rest = <<>>
           THEN /\ pollPc' = "wonBids"
                /\ pollTask' = "none"
                /\ StepNotes(r.early, r.hits, FALSE)
           ELSE /\ pollPc' = "process"
                /\ pollTask' = "prepare"
                /\ StepNotes(r.early \cup {Head(r.rest)}, r.hits, FALSE)

\* monitorWonBids goes on with `list`, after a step that leaves `note`: to
\* the next callTransform, or it returns, cleanupProcessedRequests runs and
\* the loop sleeps.
WonGoesOn(list, map, note) ==
    LET rest == WonScan(list, map)
    IN  /\ wonList' = rest
        /\ IF rest = <<>>
           THEN /\ pollPc' = "delay"
                /\ processedRequests' = cleanupProcessedRequests(map, now)
                /\ Notes({}, {}, TRUE, note)
           ELSE /\ pollPc' = "transform"
                /\ processedRequests' = map
                /\ Notes({}, {}, FALSE, note)

\* getPendingRequests resolves with `batch`.
PollFetched(batch) ==
    /\ pollPc = "fetch"
    /\ PollGoesOn(batch, processedRequests)
    /\ UNCHANGED <<now, wonList, wsTasks, wsTransform, bidsPlaced, accepted, transformed>>

\* getPendingRequests rejects: the catch of the while body logs, and the loop
\* sleeps without monitorWonBids and without cleanupProcessedRequests.
PollFetchFails ==
    /\ pollPc = "fetch"
    /\ pollPc' = "delay"
    /\ StepNotes({}, {}, FALSE)
    /\ UNCHANGED <<processedRequests, now, pollBatch, pollTask, wonList, wsTasks,
                   wsTransform, bidsPlaced, accepted, transformed>>

\* approveTokenToExchangeProxy and then signLimitOrder resolve and submitBid is
\* called, in the poll path.
PollSigned ==
    /\ pollPc = "process" /\ pollTask = "prepare"
    /\ pollTask' = "submit"
    /\ StepNotes({}, {}, FALSE)
    /\ UNCHANGED <<processedRequests, now, pollPc, pollBatch, wonList, wsTasks,
                   wsTransform, bidsPlaced, accepted, transformed>>

\* The try/catch around the body of processSingleRequest.
ProcessFailureCaught_Not == FALSE

ProcessFailureCaught == TRUE

\* processSingleRequest settles in the poll path: submitBid resolved (ok), or
\* the awaited step threw and the catch block reported it. The request is
\* marked and the for loop goes on. A failure that processSingleRequest let
\* out would end the for loop in the catch of the while body, which logs, and
\* the loop would sleep.
PollProcessed(ok) ==
    /\ pollPc = "process"
    /\ ok => pollTask = "submit"
    /\ bidsPlaced' = IF ok THEN bidsPlaced \cup {Head(pollBatch)} ELSE bidsPlaced
    /\ IF ok \/ ProcessFailureCaught
       THEN PollGoesOn(Tail(pollBatch), MapSet(processedRequests, Head(pollBatch), now))
       ELSE /\ pollPc' = "delay"
            /\ pollBatch' = <<>>
            /\ pollTask' = "none"
            /\ StepNotes({}, {}, FALSE)
            /\ UNCHANGED processedRequests
    /\ UNCHANGED <<now, wonList, wsTasks, wsTransform, accepted, transformed>>

\* getWonBids resolves (ok) or rejects: monitorWonBids loops over the bids, or
\* logs and returns.
WonBidsFetched(ok) ==
    /\ pollPc = "wonBids"
    /\ WonGoesOn(IF ok THEN SeqOf(accepted) ELSE <<>>, processedRequests, NoNote)
    /\ UNCHANGED <<now, pollBatch, pollTask, wsTasks, wsTransform, bidsPlaced,
                   accepted, transformed>>

\* What POST /octarine/transform does for a request: the server runs the
\* transform ("ok"), refuses because it has run ("already"), or fails ("fail").
TransformReplies == {"ok", "already", "fail"}

\* What client.post rejects with for a reply: the error axios makes of an HTTP
\* error status. Its message is axios's; what the server said is in
\* response.data.
ReplyError(res) ==
    IF res = "already"
    THEN [error |-> HttpError(400), data |-> <<"Already", "executed">>]
    ELSE [error |-> HttpError(500), data |-> <<"Internal", "error">>]

\* `error.message.includes('Already executed')`
IsAlreadyExecuted(e) == Includes(e.error.message, <<"Already", "executed">>)

\* callTransform(requestId) on a reply: it returns the response, returns {}
\* for an error it takes for 'Already executed', or rethrows.
callTransform(res) ==
    IF res = "ok" THEN "resolved"
    ELSE IF IsAlreadyExecuted(ReplyError(res)) THEN "resolved"
    ELSE "rejected"

TransformNote(id, res) ==
    [id |-> id, reply |-> res, outcome |-> callTransform(res),
     ranBefore |-> id \in transformed]

\* callTransform settles in monitorWonBids on the server's reply; the key is
\* set when it resolved, and the catch block logs when it threw.
PollTransformed(res) ==
    /\ pollPc = "transform"
    /\ res = "ok" => Head(wonList) \notin transformed
    /\ res = "already" => Head(wonList) \in transformed
    /\ transformed' = IF res = "ok" THEN transformed \cup {Head(wonList)} ELSE transformed
    /\ WonGoesOn(Tail(wonList),
                 IF callTransform(res) = "rejected" THEN processedRequests
                 ELSE MapSet(processedRequests, TransformKey(Head(wonList)), now),
                 TransformNote(Head(wonList), res))
    /\ UNCHANGED <<now, pollBatch, pollTask, wsTasks, wsTransform, bidsPlaced, accepted>>

\* delay(cfg.biddingPollIntervalMs) resolves: the next iteration starts.
PollWakes ==
    /\ pollPc = "delay"
    /\ pollPc' = "fetch"
    /\ StepNotes({}, {}, FALSE)
    /\ UNCHANGED <<processedRequests, now, pollBatch, pollTask, wonList, wsTasks,
                   wsTransform, bidsPlaced, accepted, transformed>>

\* handleWebSocketEvent({type: 'rfq_request', data: Request(id)}).
WsRfqRequest(id) ==
    /\ WsSeen(id) \/ ReturnsEarly(id, now) \/ WsInFlight < MaxWsTasks
    /\ IF WsSeen(id)
       THEN /\ StepNotes({}, {id}, FALSE)
            /\ UNCHANGED <<processedRequests, wsTasks>>
       ELSE /\ StepNotes({id}, {}, FALSE)
            /\ IF ReturnsEarly(id, now)
               THEN /\ processedRequests' = MapSet(processedRequests, id, now)
                    /\ wsTasks' = wsTasks
               ELSE /\ wsTasks' = wsTasks (+) SetToBag({Task(id, "prepare")})
                    /\ processedRequests' = processedRequests
    /\ UNCHANGED <<now, pollPc, pollBatch, pollTask, wonList, wsTransform,
                   bidsPlaced, accepted, transformed>>

\* approveTokenToExchangeProxy and then signLimitOrder resolve and submitBid is
\* called, in a stream task.
WsSigned(id) ==
    /\ WsAt(id, "prepare")
    /\ wsTasks' = WsMoves(id, "prepare", "submit")
    /\ StepNotes({}, {}, FALSE)
    /\ UNCHANGED <<processedRequests, now, pollPc, pollBatch, pollTask, wonList,
                   wsTransform, bidsPlaced, accepted, transformed>>

\* processSingleRequest settles in a stream task that was at `stage`: submitBid
\* resolved (ok), or the awaited step threw and the catch block reported it.
\* The .then of handleWebSocketEvent marks the request.
WsProcessed(id, stage, ok) ==
    /\ WsAt(id, stage)
    /\ ok => stage = "submit"
    /\ bidsPlaced' = IF ok THEN bidsPlaced \cup {id} ELSE bidsPlaced
    /\ processedRequests' = MapSet(processedRequests, id, now)
    /\ wsTasks' = wsTasks (-) SetToBag({Task(id, stage)})
    /\ StepNotes({}, {}, FALSE)
    /\ UNCHANGED <<now, pollPc, pollBatch, pollTask, wonList, wsTransform,
                   accepted, transformed>>

\* handleWebSocketEvent({type: 'bid_accepted', ...}): callTransform is called.
WsBidAccepted(id) ==
    /\ id \in accepted
    /\ id \notin wsTransform
    /\ wsTransform' = wsTransform \cup {id}
    /\ StepNotes({}, {}, FALSE)
    /\ UNCHANGED <<processedRequests, now, pollPc, pollBatch, pollTask, wonList,
                   wsTasks, bidsPlaced, accepted, transformed>>

\* The callTransform started by a bid_accepted event settles.
WsTransformed(id, res) ==
    /\ id \in wsTransform
    /\ res = "ok" => id \notin transformed
    /\ res = "already" => id \in transformed
    /\ transformed' = IF res = "ok" THEN transformed \cup {id} ELSE transformed
    /\ wsTransform' = wsTransform \ {id}
    /\ Notes({}, {}, FALSE, TransformNote(id, res))
    /\ UNCHANGED <<processedRequests, now, pollPc, pollBatch, pollTask, wonList,
                   wsTasks, bidsPlaced, accepted>>

\* The server accepts a bid of ours.
ServerAccepts(id) ==
    /\ id \in bidsPlaced \ accepted
    /\ accepted' = accepted \cup {id}
    /\ StepNotes({}, {}, FALSE)
    /\ UNCHANGED <<processedRequests, now, pollPc, pollBatch, pollTask, wonList,
                   wsTasks, wsTransform, bidsPlaced, transformed>>

\* Time passes.
Tick ==
    /\ now < MaxTime
    /\ now' = now + 1
    /\ StepNotes({}, {}, FALSE)
    /\ UNCHANGED <<processedRequests, pollPc, pollBatch, pollTask, wonList,
                   wsTasks, wsTransform, bidsPlaced, accepted, transformed>>

\* The module's state when it is loaded.
BidStart ==
    /\ processedRequests = <<>>
    /\ now = 0
    /\ pollPc = "fetch"
    /\ pollBatch = <<>>
    /\ pollTask = "none"
    /\ wonList = <<>>
    /\ wsTasks = EmptyBag
    /\ wsTransform = {}
    /\ bidsPlaced = {}
    /\ accepted = {}
    /\ transformed = {}
    /\ lastStarted = {}
    /\ dedupHit = {}
    /\ justSwept = FALSE
    /\ transformNote = NoNote

\* The awaits of processSingleRequest: approveTokenToExchangeProxy followed by
\* signLimitOrder ("prepare"), and submitBid.
Stages == {"prepare", "submit"}

PollStep ==
    \/ \E batch \in Batches : PollFetched(batch)
    \/ PollFetchFails
    \/ PollSigned
    \/ \E ok \in BOOLEAN : PollProcessed(ok)
    \/ \E ok \in BOOLEAN : WonBidsFetched(ok)
    \/ \E res \in TransformReplies : PollTransformed(res)
    \/ PollWakes

WsRequestStep ==
    \/ \E id \in Ids : WsRfqRequest(id)
    \/ \E id \in Ids : WsSigned(id)
    \/ \E id \in Ids, stage \in Stages, ok \in BOOLEAN : WsProcessed(id, stage, ok)

WsAcceptedStep ==
    \/ \E id \in Ids : WsBidAccepted(id)
    \/ \E id \in Ids, res \in TransformReplies : WsTransformed(id, res)

NextBid ==
    \/ PollStep
    \/ WsRequestStep
    \/ \E id \in Ids : ServerAccepts(id)
    \/ Tick

\* ------------------------------------------- cleanupProcessedRequests alone
\* The keys the two loops put in the map.
Keys == Ids \cup {TransformKey(id) : id \in Ids}

\* The maps the program can hold at time t: any keys in any order (a key set
\* again keeps its place), each with a timestamp that is not in the future.
MapsAt(t) ==
    {m \in UNION {[1..n -> [key : Keys, ts : 0..t]] : n \in 0..Cardinality(Keys)} :
        \A i, j \in 1..Len(m) : m[i].key = m[j].key => i = j}

\* No sweep is studied on its own.
SweepIdle == sweepInput = <<>>

\* cleanupProcessedRequests() is called.
Sweep ==
    /\ ~justSwept
    /\ processedRequests' = cleanupProcessedRequests(processedRequests, now)
    /\ justSwept' = TRUE
    /\ UNCHANGED <<now, pollPc, pollBatch, pollTask, wonList, wsTasks, wsTransform,
                   bidsPlaced, accepted, transformed, lastStarted, dedupHit,
                   transformNote>>
    /\ UNCHANGED beyondBid

\* ------------------------------------------------------- withRetry
\* A classifier that takes every error for retryable.
isRetryableApiError_All(error) == TRUE

isRetryableApiError(error) ==
    IF error.code \in {"ECONNRESET", "ETIMEDOUT", "ENOTFOUND"} THEN TRUE
    ELSE IF error.status # 0 THEN error.status = 429 \/ error.status >= 500
    ELSE Includes(ToLowerCase(error.message), <<"timeout">>)

isRetryableTxError(error) ==
    IF Includes(ToLowerCase(error.message), <<"nonce">>) THEN TRUE
    ELSE IF Includes(ToLowerCase(error.message), <<"replacement", "fee">>) THEN TRUE
    ELSE error.code \in {"NETWORK_ERROR", "TIMEOUT"}

\* backoffMultiplier as a fraction; the options below keep every product whole.
Times(d, m) == (d * m.num) \div m.den
Min(a, b) == IF a <= b THEN a ELSE b

Opts(maxAttempts, initialDelayMs, maxDelayMs, backoffMultiplier, retryableErrors) ==
    [maxAttempts |-> maxAttempts, initialDelayMs |-> initialDelayMs,
     maxDelayMs |-> maxDelayMs, backoffMultiplier |-> backoffMultiplier,
     retryableErrors |-> retryableErrors]

API_RETRY_DEFAULTS == Opts(3, 1000, 10000, [num |-> 2, den |-> 1], "isRetryableApiError")
TX_RETRY_DEFAULTS == Opts(2, 2000, 5000, [num |-> 3, den |-> 2], "isRetryableTxError")

\* Options of callers to come: any attempt count, with a predicate that takes
\* every error ("always"), none ("never"), or with no predicate ("undefined").
OtherOptions ==
    {Opts(n, d, cap, m, p) :
        n \in 0..MaxAttemptsBound, d \in {400, 2000}, cap \in {500, 5000},
        m \in {[num |-> 2, den |-> 1], [num |-> 3, den |-> 2]},
        p \in {"always", "never", "undefined"}}

RetryOptions == {API_RETRY_DEFAULTS, TX_RETRY_DEFAULTS} \cup OtherOptions

\* The errors the operation run under opts can reject with.
ErrorsUnder(opts) ==
    CASE opts.retryableErrors = "isRetryableApiError" -> ApiErrors
      [] opts.retryableErrors = "isRetryableTxError" -> TxErrors
      [] OTHER -> PlainErrors

\* A predicate position that takes every error for retryable.
IsRetryable_Always(opts, error) == TRUE

\* `options.retryableErrors?.(error) ?? true`
IsRetryable(opts, error) ==
    CASE opts.retryableErrors = "isRetryableApiError" -> isRetryableApiError(error)
      [] opts.retryableErrors = "isRetryableTxError" -> isRetryableTxError(error)
      [] opts.retryableErrors = "never" -> FALSE
      [] OTHER -> TRUE

\* `attempt < options.maxAttempts`, one attempt short.
HasMoreAttempts_OneShort(attempt, opts) == attempt + 1 < opts.maxAttempts

\* `attempt < options.maxAttempts`
HasMoreAttempts(attempt, opts) == attempt < opts.maxAttempts

\* A backoff that never grows.
NextDelay_Flat(delay, opts) == delay

\* `Math.min(currentDelay * options.backoffMultiplier, options.maxDelayMs)`
NextDelay(delay, opts) == Min(Times(delay, opts.backoffMultiplier), opts.maxDelayMs)

Ok == [class |-> "ok", code |-> "", status |-> 0, message |-> <<>>]
Undefined == [class |-> "undefined", code |-> "", status |-> 0, message |-> <<>>]
\* What fn() can resolve with: two values withRetry must tell apart.
Results == {Ok, [class |-> "ok", code |-> "", status |-> 200, message |-> <<>>]}
Unsettled == [status |-> "pending", v |-> Undefined]

\* No withRetry call.
RetryIdle ==
    /\ rOpts = API_RETRY_DEFAULTS
    /\ rPc = "idle"
    /\ rAttempt = 0
    /\ rDelay = 0
    /\ rLog = <<>>
    /\ rWaits = <<>>
    /\ rOutcome = Unsettled

\* withRetry(fn, opts) up to its first await: the loop invokes fn, or with no
\* attempt allowed falls through to `throw lastError`.
WithRetryCalled(opts) ==
    /\ rOpts = opts
    /\ rAttempt = 1
    /\ rDelay = opts.initialDelayMs
    /\ rLog = <<>>
    /\ rWaits = <<>>
    /\ IF 1 <= opts.maxAttempts
       THEN rPc = "call" /\ rOutcome = Unsettled
       ELSE rPc = "done" /\ rOutcome = [status |-> "rejected", v |-> Undefined]

\* fn() resolves: `return await fn()`.
RetryFnResolves(result) ==
    /\ rPc = "call"
    /\ rLog' = Append(rLog, result)
    /\ rPc' = "done"
    /\ rOutcome' = [status |-> "resolved", v |-> result]
    /\ UNCHANGED <<rOpts, rAttempt, rDelay, rWaits>>
    /\ UNCHANGED beyondRetry

\* fn() rejects with error: it is rethrown, or delay(currentDelay) is awaited.
RetryFnRejects(error) ==
    /\ rPc = "call"
    /\ error \in ErrorsUnder(rOpts)
    /\ rLog' = Append(rLog, error)
    /\ IF ~IsRetryable(rOpts, error) \/ ~HasMoreAttempts(rAttempt, rOpts)
       THEN /\ rPc' = "done"
            /\ rOutcome' = [status |-> "rejected", v |-> error]
            /\ rWaits' = rWaits
       ELSE /\ rPc' = "wait"
            /\ rWaits' = Append(rWaits, rDelay)
            /\ rOutcome' = rOutcome
    /\ UNCHANGED <<rOpts, rAttempt, rDelay>>
    /\ UNCHANGED beyondRetry

\* delay() resolves: the delay grows, attempt++, and fn is invoked again.
RetryDelayDone ==
    /\ rPc = "wait"
    /\ rDelay' = NextDelay(rDelay, rOpts)
    /\ rAttempt' = rAttempt + 1
    /\ rPc' = "call"
    /\ UNCHANGED <<rOpts, rLog, rWaits, rOutcome>>
    /\ UNCHANGED beyondRetry

\* ------------------------------------------- approveTokenToExchangeProxy
\* The executeTransaction calls that are the sendTransaction of an approval.
Approvals == 1..MaxApprovals

AlreadyApproved == [kind |-> "approval", n |-> 0, msg |-> "alreadyApproved"]
Approved(n) == [kind |-> "approval", n |-> n, msg |-> "approved"]

\* No approveTokenToExchangeProxy call.
ApproveIdle ==
    /\ apc = [c \in Calls |-> "idle"]
    /\ aOut = [c \in Calls |-> Pending]

\* approveTokenToExchangeProxy is called: an invalid address is thrown at
\* once, otherwise symbol(), getAddress() and allowance() are awaited.
ApproveCalled(c, valid) ==
    /\ apc[c] = "idle"
    /\ IF valid
       THEN /\ apc' = [apc EXCEPT ![c] = "started"]
            /\ aOut' = aOut
       ELSE /\ apc' = [apc EXCEPT ![c] = "done"]
            /\ aOut' = [aOut EXCEPT ![c] = Rethrown(Failure(0, "invalid address"))]
    /\ UNCHANGED <<walletVars, beyondApprove>>

\* allowance() resolves with enough: { txHash: null, alreadyApproved: true }.
AllowanceEnough(c) ==
    /\ apc[c] = "started" /\ wpc[c] = "idle"
    /\ apc' = [apc EXCEPT ![c] = "done"]
    /\ aOut' = [aOut EXCEPT ![c] = Returned(AlreadyApproved)]
    /\ UNCHANGED <<walletVars, beyondApprove>>

\* getAddress() or allowance() rejects: the catch logs and rethrows.
AllowanceFails(c) ==
    /\ apc[c] = "started" /\ wpc[c] = "idle"
    /\ apc' = [apc EXCEPT ![c] = "done"]
    /\ aOut' = [aOut EXCEPT ![c] = Rethrown(Failure(0, "rpc"))]
    /\ UNCHANGED <<walletVars, beyondApprove>>

\* allowance() resolves with too little: wm.sendTransaction is called, which
\* is executeTransaction with a callback that sends with the nonce it is given.
ApproveSends(c) ==
    /\ apc[c] = "started"
    /\ ExecuteTransaction(c)

\* wm.sendTransaction resolved: wm.waitForTransaction(tx.hash) is awaited.
ApproveTxSent(c) ==
    /\ apc[c] = "started"
    /\ outcome[c].status = "resolved"
    /\ apc' = [apc EXCEPT ![c] = "waiting"]
    /\ aOut' = aOut
    /\ UNCHANGED <<walletVars, beyondApprove>>

\* wm.sendTransaction rejected: the catch logs and rethrows.
ApproveSendFailed(c) ==
    /\ apc[c] = "started"
    /\ outcome[c].status = "rejected"
    /\ apc' = [apc EXCEPT ![c] = "done"]
    /\ aOut' = [aOut EXCEPT ![c] = Rethrown(outcome[c].v)]
    /\ UNCHANGED <<walletVars, beyondApprove>>

\* What waitForTransaction settles with: the receipt, Error('Transaction
\* confirmation timeout') when the timer wins the race, Error('Transaction
\* failed: ...') when receipt.status is 0. It does not touch currentNonce.
waitForTransaction(n, res) ==
    CASE res = "confirmed" -> Returned(Approved(n))
      [] res = "timeout" -> Rethrown(Failure(n, "Transaction confirmation timeout"))
      [] OTHER -> Rethrown(Failure(n, "Transaction failed"))

\* wm.waitForTransaction settles, and approveTokenToExchangeProxy with it.
WaitSettles(c, res) ==
    /\ apc[c] = "waiting"
    /\ apc' = [apc EXCEPT ![c] = "done"]
    /\ aOut' = [aOut EXCEPT ![c] = waitForTransaction(NonceOf(c), res)]
    /\ UNCHANGED <<walletVars, beyondApprove>>

\* Another sender on the same account has a transaction taken by the ledger.
RivalSends ==
    /\ ledgerPending < MaxApprovals + MaxRivalTxs
    /\ ledgerPending' = ledgerPending + 1
    /\ UNCHANGED <<currentNonce, mutexHolder, mutexQueue, wpc, fnOut, outcome, base,
                   callOrder, entered, handed, queryLog, allConcurrent>>
    /\ UNCHANGED <<approveVars, beyondApprove>>

\* -------------------------------------------------------- OctarineWebSocket
NoSocket == 0
NoTimer == 0
NoOp == [op |-> "none"]
Sockets == 1..MaxSockets
\* Timer ids: a socket's 'close' event arms one timer at most.
Timers == 1..MaxSockets

\* config.reconnectIntervalMs, at its default.
reconnectIntervalMs == 5000

\* A socket new WebSocket(url) has not made yet.
Unmade == [state |-> "none", promise |-> "none", closedByUs |-> FALSE,
           by |-> "none", raised |-> FALSE, subscribes |-> 0]

SocketsMade == Cardinality({s \in Sockets : sockets[s].state # "none"})

\* resolve() and reject() of the promise connect() returned: the first one wins.
Settle(promise, how) == IF promise = "pending" THEN how ELSE promise

\* connect() called by `by` (the application, or the timer's callback) with
\* this.ws = w: an early return, or a new socket in this.ws with the four
\* handlers on it.
connect(w, by) ==
    IF w # NoSocket
    THEN /\ ws' = w
         /\ UNCHANGED <<shouldReconnect, sockets>>
    ELSE /\ SocketsMade < MaxSockets
         /\ shouldReconnect' = TRUE
         /\ ws' = SocketsMade + 1
         /\ sockets' = [sockets EXCEPT ![SocketsMade + 1] =
                            [state |-> "connecting", promise |-> "pending",
                             closedByUs |-> FALSE, by |-> by, raised |-> FALSE,
                             subscribes |-> 0]]

\* clearTimeout(t)
clearTimeout_Kept(t) == timers

clearTimeout(t) == {timer \in timers : timer.id # t}

\* WebSocket.close() of the ws library: a handshake under way is aborted (an
\* 'error' and then a 'close' event follow), an open socket starts its closing
\* handshake (a 'close' event follows), a socket already closing or closed
\* stays as it is.
close(state) ==
    CASE state = "connecting" -> "aborted"
      [] state = "open" -> "closing"
      [] OTHER -> state

scheduleReconnect ==
    IF reconnectTimeout # NoTimer
    THEN UNCHANGED <<reconnectTimeout, timers, timersMade>>
    ELSE /\ timersMade' = timersMade + 1
         /\ reconnectTimeout' = timersMade + 1
         /\ timers' = timers \cup {[id |-> timersMade + 1, delayMs |-> reconnectIntervalMs]}

\* The close handler's `if (this.shouldReconnect)`.
ReconnectsOnClose_Always == TRUE
ReconnectsOnClose_Never == FALSE

ReconnectsOnClose == shouldReconnect

\* The application calls connect().
ConnectCalled ==
    /\ connect(ws, "connect")
    /\ lastOp' = [op |-> "connect", early |-> ws # NoSocket, socket |-> ws']
    /\ disconnected' = FALSE
    /\ disconnects' = 0
    /\ UNCHANGED <<isConnected, reconnectTimeout, timers, timersMade, clearedTimers,
                   beyondStream>>

\* The application calls disconnect().
disconnect ==
    /\ shouldReconnect' = FALSE
    /\ timers' = IF reconnectTimeout # NoTimer THEN clearTimeout(reconnectTimeout) ELSE timers
    /\ clearedTimers' = clearedTimers \cup {timer.id : timer \in timers \ timers'}
    /\ reconnectTimeout' = NoTimer
    /\ sockets' = IF ws # NoSocket
                  THEN [sockets EXCEPT ![ws].state = close(@),
                                       ![ws].closedByUs = @ \/ sockets[ws].state # "closed"]
                  ELSE sockets
    /\ ws' = NoSocket
    /\ isConnected' = FALSE
    /\ disconnected' = TRUE
    /\ disconnects' = Min(disconnects + 1, 2)
    /\ lastOp' = [op |-> "disconnect"]
    /\ UNCHANGED <<timersMade, beyondStream>>

\* The socket subscribe() sends on when it runs in the 'open' handler of
\* socket s: this.ws, if there is one and its readyState is OPEN.
SubscribesOn(s) ==
    IF ws # NoSocket /\ (ws = s \/ sockets[ws].state = "open") THEN ws ELSE NoSocket

\* The 'open' event of socket s.
SocketOpens(s) ==
    /\ sockets[s].state = "connecting"
    /\ isConnected' = TRUE
    /\ LET opened == [sockets EXCEPT ![s].state = "open",
                                     ![s].promise = Settle(@, "resolved")]
       IN sockets' = IF SubscribesOn(s) = NoSocket
                     THEN opened
                     ELSE [opened EXCEPT ![SubscribesOn(s)].subscribes = @ + 1]
    /\ lastOp' = [op |-> "open", socket |-> s]
    /\ disconnects' = 0
    /\ UNCHANGED <<ws, shouldReconnect, reconnectTimeout, timers, timersMade,
                   clearedTimers, disconnected, beyondStream>>

\* The 'error' handler of socket s rejects the promise of its connect() call,
\* and the application is awaiting it: the timer's callback catches its own.
Rejects(s) ==
    ~isConnected /\ sockets[s].promise = "pending" /\ sockets[s].by = "connect"

\* The 'error' event of socket s; its 'close' event follows.
SocketFails(s) ==
    /\ sockets[s].state \in {"connecting", "open", "aborted"}
    /\ sockets' = [sockets EXCEPT ![s].state = "errored",
                                  ![s].promise = IF ~isConnected
                                                 THEN Settle(@, "rejected")
                                                 ELSE @,
                                  ![s].raised = @ \/ Rejects(s)]
    /\ lastOp' = [op |-> "error", socket |-> s]
    /\ disconnects' = 0
    /\ UNCHANGED <<ws, isConnected, shouldReconnect, reconnectTimeout, timers,
                   timersMade, clearedTimers, disconnected, beyondStream>>

\* The 'close' event of socket s: the server closed it, or it failed, or
\* close() was called on it.
SocketCloses(s) ==
    /\ sockets[s].state \in {"open", "errored", "closing"}
    /\ sockets' = [sockets EXCEPT ![s].state = "closed"]
    /\ isConnected' = FALSE
    /\ IF ReconnectsOnClose
       THEN scheduleReconnect
       ELSE UNCHANGED <<reconnectTimeout, timers, timersMade>>
    /\ lastOp' = [op |-> "close", socket |-> s]
    /\ disconnects' = 0
    /\ UNCHANGED <<ws, shouldReconnect, clearedTimers, disconnected, beyondStream>>

\* The callback's `this.ws = null`.
TimerWs_Kept == ws

TimerWs == NoSocket

\* The callback scheduleReconnect gave to setTimeout runs.
TimerFires(t) ==
    /\ \E timer \in timers : timer.id = t
    /\ timers' = {timer \in timers : timer.id # t}
    /\ reconnectTimeout' = NoTimer
    /\ connect(TimerWs, "timer")
    /\ lastOp' = [op |-> "timer", timer |-> t]
    /\ disconnects' = 0
    /\ UNCHANGED <<isConnected, timersMade, clearedTimers, disconnected, beyondStream>>

\* The messages a socket can deliver: text that is not JSON, or an object
\* with a type and with a payload that is missing, for a chain the bot does not
\* support, or for one it supports.
NotJson == [json |-> FALSE]
Messages ==
    {NotJson} \cup
    [json : {TRUE},
     type : {"rfq_request", "liquidation", "bid_accepted", "pong", "other"},
     data : {"missing", "unsupported chain", "supported chain"}]

NoEvent == [type |-> "none"]

\* handleMessage(data): the event it emits to the listeners, if any. JSON.parse
\* and message.data.chainId throw on text that is not JSON and on a missing
\* payload, and the catch block logs that.
handleMessage(m) ==
    IF ~m.json THEN NoEvent
    ELSE CASE m.type \in {"rfq_request", "liquidation"} ->
                IF m.data = "supported chain"
                THEN [type |-> m.type, data |-> m.data]
                ELSE NoEvent
           [] m.type = "bid_accepted" -> [type |-> m.type, data |-> m.data]
           [] OTHER -> NoEvent

\* The 'message' event of socket s.
SocketMessage(s, m) ==
    /\ sockets[s].state = "open"
    /\ lastOp' = [op |-> "message", socket |-> s, msg |-> m, emitted |-> handleMessage(m)]
    /\ disconnects' = 0
    /\ UNCHANGED <<ws, isConnected, shouldReconnect, reconnectTimeout, sockets, timers,
                   timersMade, clearedTimers, disconnected, beyondStream>>

\* new OctarineWebSocket(config)
StreamStart ==
    /\ ws = NoSocket
    /\ isConnected = FALSE
    /\ shouldReconnect = TRUE
    /\ reconnectTimeout = NoTimer
    /\ sockets = [s \in Sockets |-> Unmade]
    /\ timers = {}
    /\ timersMade = 0
    /\ clearedTimers = {}
    /\ disconnected = FALSE
    /\ disconnects = 0
    /\ lastOp = NoOp

\* ------------------------------------------------------ NotificationService
Payloads == 1..MaxNotifications

\* The notifiers a service can have: the database recorder, the Slack notifier.
Notifiers == 1..2

\* No drain loop of processQueue is running.
NoDrain == {}

\* A drain loop awaiting notifier.send(payload) of notifier n for payload p.
Sending(p, n) == [pc |-> "send", payload |-> p, notifier |-> n]

\* What one notifier.send(payload) call does: its promise resolves, its promise
\* rejects, or the call throws before it returns a promise.
SendOutcomes == {"resolves", "rejects", "throws"}

\* try { await notifier.send(payload) } catch (error) { logger.error(...) }
SendFailureCaught_Not == FALSE

SendFailureCaught == TRUE

\* `this.isProcessing` in the guard of processQueue.
AlreadyProcessing_Never == FALSE

AlreadyProcessing == isProcessing

\* `this.isProcessing = false` after the while loop.
AfterDrain_Kept == TRUE

AfterDrain == FALSE

\* The loops of processQueue from the point the drain loop `d` is at, as far as
\* the next await: `n` is the notifier the for loop comes to, in the pass for
\* payload `p` of the while loop over the queue.
DrainOn(d, p, n) ==
    IF n <= notifiers
    THEN /\ drain' = (drain \ {d}) \cup {Sending(p, n)}
         /\ UNCHANGED <<queue, isProcessing>>
    ELSE IF queue # <<>>
    THEN /\ drain' = (drain \ {d}) \cup {Sending(Head(queue), 1)}
         /\ queue' = Tail(queue)
         /\ UNCHANGED isProcessing
    ELSE /\ drain' = drain \ {d}
         /\ isProcessing' = AfterDrain
         /\ UNCHANGED queue

\* processQueue(), called on queue `q`, as far as its first await.
processQueue(q) ==
    IF AlreadyProcessing \/ q = <<>>
    THEN queue' = q /\ UNCHANGED <<isProcessing, drain>>
    ELSE /\ isProcessing' = TRUE
         /\ drain' = drain \cup {Sending(Head(q), 1)}
         /\ queue' = Tail(q)

\* notify(payload): the payload is queued and processQueue() is called, whose
\* promise is dropped. notify returns to its caller.
NotifyCalled ==
    /\ notified < MaxNotifications
    /\ notified' = notified + 1
    /\ IF notifiers = 0
       THEN UNCHANGED <<queue, isProcessing, drain>>
       ELSE processQueue(Append(queue, notified + 1))
    /\ UNCHANGED <<notifiers, sendLog>>
    /\ UNCHANGED beyondNotify

\* await notifier.send(p) of notifier n settles. A failure that is caught is
\* logged and the for loop goes on; one that is not caught rejects
\* processQueue's promise, which nobody holds, with isProcessing left set.
SendSettles(p, n, how) ==
    /\ Sending(p, n) \in drain
    /\ sendLog' = Append(sendLog, [payload |-> p, notifier |-> n, how |-> how])
    /\ IF how = "resolves" \/ SendFailureCaught
       THEN DrainOn(Sending(p, n), p, n + 1)
       ELSE /\ drain' = (drain \ {Sending(p, n)}) \cup {[pc |-> "rejected"]}
            /\ UNCHANGED <<queue, isProcessing>>
    /\ UNCHANGED <<notifiers, notified>>
    /\ UNCHANGED beyondNotify

\* A service with no notifiers (notifications disabled), and nothing queued.
NotifyIdle ==
    /\ notifiers = 0
    /\ queue = <<>>
    /\ isProcessing = FALSE
    /\ drain = NoDrain
    /\ notified = 0
    /\ sendLog = <<>>

\* new NotificationService(config): the database recorder, the Slack notifier,
\* both or neither.
NotifyStart(n) ==
    /\ notifiers = n
    /\ queue = <<>>
    /\ isProcessing = FALSE
    /\ drain = NoDrain
    /\ notified = 0
    /\ sendLog = <<>>

\* --------------------------------------------------------------- the process
NoExit == "none"

\* process.exit was not called.
Alive == exitCode = NoExit

\* main() is past `await ws.connect()`, whose promise is that of the first
\* socket, or had no stream to connect: the continuation of main runs in the
\* task that settles the promise, and startBiddingLoop runs in it as far as its
\* first await.
LoopsStarted ==
    /\ health = "ok"
    /\ wsEnabled => sockets[1].promise \in {"resolved", "rejected"}

\* `await requireHealthy(config)` settles in main. If it threw, main rejects
\* and the catch at the entry point calls process.exit(1). If not, main goes on:
\* with a stream it calls ws.connect() and awaits it in a try/catch; without
\* one it starts the loops.
HealthChecked(ok) ==
    /\ Alive
    /\ health = "pending"
    /\ health' = IF ok THEN "ok" ELSE "failed"
    /\ exitCode' = IF ok THEN exitCode ELSE "1"
    /\ IF ok /\ wsEnabled
       THEN /\ connect(ws, "connect")
            /\ lastOp' = [op |-> "connect", early |-> ws # NoSocket, socket |-> ws']
            /\ UNCHANGED <<isConnected, reconnectTimeout, timers, timersMade,
                           clearedTimers, disconnected, disconnects>>
       ELSE UNCHANGED streamVars
    /\ UNCHANGED <<wsEnabled, shutdownArmed>>
    /\ UNCHANGED <<walletVars, bidVars, sweepVars, retryVars, approveVars, notifyVars>>

\* SIGINT or SIGTERM: the handler calls notifyBotStopped, which returns, and
\* arms a timer of 2000 ms. Nothing else is told of the signal. A second signal
\* arms a second timer, and the first one to fire ends the process.
Signal ==
    /\ Alive
    /\ shutdownArmed' = TRUE
    /\ UNCHANGED <<wsEnabled, health, exitCode>>
    /\ UNCHANGED beyondMain

\* The timer of the shutdown handler fires: process.exit(0).
ExitTimerFires ==
    /\ Alive
    /\ shutdownArmed
    /\ exitCode' = "0"
    /\ UNCHANGED <<wsEnabled, health, shutdownArmed>>
    /\ UNCHANGED beyondMain

\* main() was called.
MainStart(enabled) ==
    /\ wsEnabled = enabled
    /\ health = "pending"
    /\ shutdownArmed = FALSE
    /\ exitCode = NoExit

\* The process is up: the health checks passed and the loops were started.
MainIdle ==
    /\ wsEnabled = FALSE
    /\ health = "ok"
    /\ shutdownArmed = FALSE
    /\ exitCode = NoExit

\* ------------------------------------------------------------ specifications
WalletStart(b) ==
    /\ currentNonce = Null
    /\ mutexHolder = {}
    /\ mutexQueue = <<>>
    /\ wpc = [c \in Calls |-> "idle"]
    /\ fnOut = [c \in Calls |-> NoValue]
    /\ outcome = [c \in Calls |-> Pending]
    /\ base = b
    /\ ledgerPending = base
    /\ callOrder = <<>>
    /\ entered = <<>>
    /\ handed = <<>>
    /\ queryLog = <<>>
    /\ allConcurrent = TRUE

\* A new WalletManager on a ledger with some count; startBiddingLoop not running.
InitWallet ==
    /\ \E b \in 0..MaxBase : WalletStart(b)
    /\ BidStart /\ SweepIdle /\ RetryIdle /\ ApproveIdle /\ StreamStart /\ NotifyIdle /\ MainIdle

\* startBiddingLoop is called; no executeTransaction call is made.
InitBid ==
    BidStart /\ WalletStart(0) /\ SweepIdle /\ RetryIdle /\ ApproveIdle /\ StreamStart /\ NotifyIdle /\ MainIdle

SectionStep ==
    \E c \in Calls :
        \/ EnterSection(c)
        \/ SyncNonceDone(c)
        \/ SyncNonceFails(c)
        \/ FnSucceeds(c)
        \/ \E msg \in {"pre", "post"} : FnFails(c, msg)

NextWallet ==
    \/ \E c \in Calls : ExecuteTransaction(c)
    \/ SectionStep

SpecWallet == InitWallet /\ [][NextWallet]_vars

\* Every await of a section that was entered settles.
FairSpecWallet == SpecWallet /\ WF_vars(SectionStep)

\* Approvals on one new WalletManager, whose account another sender may use.
InitApprove ==
    WalletStart(0) /\ ApproveIdle /\ BidStart /\ SweepIdle /\ RetryIdle /\ StreamStart /\ NotifyIdle /\ MainIdle

ApproveStep ==
    \/ \E c \in Approvals, valid \in BOOLEAN : ApproveCalled(c, valid)
    \/ \E c \in Approvals : AllowanceEnough(c)
    \/ \E c \in Approvals : AllowanceFails(c)
    \/ \E c \in Approvals : ApproveSends(c)
    \/ \E c \in Approvals : ApproveTxSent(c)
    \/ \E c \in Approvals : ApproveSendFailed(c)
    \/ \E c \in Approvals, res \in {"confirmed", "timeout", "reverted"} : WaitSettles(c, res)

NextApprove ==
    \/ ApproveStep
    \/ \E c \in Approvals : EnterSection(c)
    \/ \E c \in Approvals : SyncNonceDone(c)
    \/ \E c \in Approvals : SyncNonceFails(c)
    \/ \E c \in Approvals : FnSucceeds(c)
    \/ \E c \in Approvals, msg \in {"pre", "nonce", "post"} : FnFails(c, msg)
    \/ RivalSends

SpecApprove == InitApprove /\ [][NextApprove]_vars

\* withRetry is called with any of the options, on an operation that settles
\* each time as it likes.
InitRetry ==
    /\ \E opts \in RetryOptions : WithRetryCalled(opts)
    /\ WalletStart(0) /\ BidStart /\ SweepIdle /\ ApproveIdle /\ StreamStart /\ NotifyIdle /\ MainIdle

NextRetry ==
    \/ \E result \in Results : RetryFnResolves(result)
    \/ \E error \in ApiErrors \cup TxErrors \cup PlainErrors : RetryFnRejects(error)
    \/ RetryDelayDone

SpecRetry == InitRetry /\ [][NextRetry]_vars

\* Any map at any time, about to be swept.
InitSweep ==
    /\ now \in 0..MaxTime
    /\ processedRequests \in MapsAt(now)
    /\ sweepInput = processedRequests
    /\ pollPc = "fetch" /\ pollBatch = <<>> /\ pollTask = "none" /\ wonList = <<>>
    /\ wsTasks = EmptyBag /\ wsTransform = {}
    /\ bidsPlaced = {} /\ accepted = {} /\ transformed = {}
    /\ lastStarted = {} /\ dedupHit = {} /\ justSwept = FALSE
    /\ transformNote = NoNote
    /\ WalletStart(0)
    /\ RetryIdle
    /\ ApproveIdle
    /\ StreamStart /\ NotifyIdle /\ MainIdle

NextSweep == Sweep

SpecSweep == InitSweep /\ [][NextSweep]_vars

\* One stream client, the application calling connect() and disconnect() as
\* it likes, the sockets opening, failing and closing as they like.
InitStream ==
    /\ StreamStart /\ WalletStart(0) /\ BidStart /\ SweepIdle /\ RetryIdle
    /\ ApproveIdle /\ NotifyIdle /\ MainIdle

NextStream ==
    \/ ConnectCalled
    \/ disconnect
    \/ \E s \in Sockets : SocketOpens(s)
    \/ \E s \in Sockets : SocketFails(s)
    \/ \E s \in Sockets : SocketCloses(s)
    \/ \E t \in Timers : TimerFires(t)
    \/ \E s \in Sockets, m \in Messages : SocketMessage(s, m)

SpecStream == InitStream /\ [][NextStream]_vars

\* The connection's life without its inbound messages, which change nothing
\* of it. Node runs the callback of an armed timer, and the ws library delivers
\* the 'error' event of an aborted handshake and the 'close' event that follows
\* an 'error' or a close(). Nothing makes a handshake end or an open socket
\* close.
NextReconnect ==
    \/ ConnectCalled
    \/ disconnect
    \/ \E s \in Sockets : SocketOpens(s)
    \/ \E s \in Sockets : SocketFails(s)
    \/ \E s \in Sockets : SocketCloses(s)
    \/ \E t \in Timers : TimerFires(t)

FairSpecStream ==
    /\ InitStream /\ [][NextReconnect]_vars
    /\ \A t \in Timers : WF_vars(TimerFires(t))
    /\ \A s \in Sockets : WF_vars(sockets[s].state = "aborted" /\ SocketFails(s))
    /\ \A s \in Sockets : WF_vars(sockets[s].state # "open" /\ SocketCloses(s))

\* Bids of ours that were accepted, and no request pending: monitorWonBids in
\* the polling loop and the stream's bid_accepted events call callTransform.
InitWon ==
    /\ \E won \in SUBSET Ids \ {{}} : bidsPlaced = won /\ accepted = won
    /\ processedRequests = <<>> /\ now = 0
    /\ pollPc = "fetch" /\ pollBatch = <<>> /\ pollTask = "none" /\ wonList = <<>>
    /\ wsTasks = EmptyBag /\ wsTransform = {} /\ transformed = {}
    /\ lastStarted = {} /\ dedupHit = {} /\ justSwept = FALSE
    /\ transformNote = NoNote
    /\ WalletStart(0) /\ SweepIdle /\ RetryIdle /\ ApproveIdle /\ StreamStart /\ NotifyIdle /\ MainIdle

NextWon ==
    \/ PollFetched(<<>>)
    \/ PollFetchFails
    \/ \E ok \in BOOLEAN : WonBidsFetched(ok)
    \/ \E res \in TransformReplies : PollTransformed(res)
    \/ PollWakes
    \/ \E id \in Ids : WsBidAccepted(id)
    \/ \E id \in Ids, res \in TransformReplies : WsTransformed(id, res)
    \/ Tick

SpecWon == InitWon /\ [][NextWon]_vars

\* One NotificationService with any of the notifier sets, the application
\* calling notify() as it likes, each send settling as it likes.
InitNotify ==
    /\ \E n \in {0} \cup Notifiers : NotifyStart(n)
    /\ WalletStart(0) /\ BidStart /\ SweepIdle /\ RetryIdle /\ ApproveIdle /\ StreamStart
    /\ MainIdle

NextNotify ==
    \/ NotifyCalled
    \/ \E p \in Payloads, n \in Notifiers, how \in SendOutcomes : SendSettles(p, n, how)

SpecNotify == InitNotify /\ [][NextNotify]_vars

\* Every notifier.send call terminates: its promise settles, or it throws.
FairSpecNotify ==
    /\ SpecNotify
    /\ WF_vars(\E p \in Payloads, n \in Notifiers, how \in SendOutcomes : SendSettles(p, n, how))

\* main() from its health checks on, with or without a stream: the sockets
\* open, fail and close as they like, and the polling loop runs once main has
\* started it. No signal is sent.
InitMain ==
    /\ \E enabled \in BOOLEAN : MainStart(enabled)
    /\ StreamStart /\ BidStart /\ WalletStart(0) /\ SweepIdle /\ RetryIdle
    /\ ApproveIdle /\ NotifyIdle

\* The loops run: main started them and the process did not exit.
Running == Alive /\ LoopsStarted

\* No bid is accepted in these runs: getWonBids has nothing to return.
NextMain ==
    \/ \E ok \in BOOLEAN : HealthChecked(ok)
    \/ \E s \in Sockets : Alive /\ SocketOpens(s)
    \/ \E s \in Sockets : Alive /\ SocketFails(s)
    \/ \E s \in Sockets : Alive /\ SocketCloses(s)
    \/ \E t \in Timers : Alive /\ TimerFires(t)
    \/ \E batch \in Batches : Running /\ PollFetched(batch)
    \/ Running /\ PollFetchFails
    \/ Running /\ PollSigned
    \/ \E ok \in BOOLEAN : Running /\ PollProcessed(ok)
    \/ \E ok \in BOOLEAN : Running /\ WonBidsFetched(ok)
    \/ Running /\ PollWakes
    \/ Running /\ Tick

SpecMain == InitMain /\ [][NextMain]_vars

\* The same with the clock left out. The health checks settle, every await of
\* the polling loop settles and its delay ends, Node runs the callback of an
\* armed timer, and the ws library delivers the 'error' event of an aborted
\* handshake and the 'close' event that follows an 'error' or a close().
\* Nothing makes a handshake end or an open socket close.
NextStartup ==
    \/ \E ok \in BOOLEAN : HealthChecked(ok)
    \/ \E s \in Sockets : Alive /\ SocketOpens(s)
    \/ \E s \in Sockets : Alive /\ SocketFails(s)
    \/ \E s \in Sockets : Alive /\ SocketCloses(s)
    \/ \E t \in Timers : Alive /\ TimerFires(t)
    \/ \E batch \in Batches : Running /\ PollFetched(batch)
    \/ Running /\ PollFetchFails
    \/ Running /\ PollSigned
    \/ \E ok \in BOOLEAN : Running /\ PollProcessed(ok)
    \/ \E ok \in BOOLEAN : Running /\ WonBidsFetched(ok)
    \/ Running /\ PollWakes

FairSpecMain ==
    /\ InitMain /\ [][NextStartup]_vars
    /\ WF_vars(\E ok \in BOOLEAN : HealthChecked(ok))
    /\ WF_vars(Running /\ PollStep)
    /\ \A t \in Timers : WF_vars(Alive /\ TimerFires(t))
    /\ \A s \in Sockets : WF_vars(Alive /\ sockets[s].state = "aborted" /\ SocketFails(s))
    /\ \A s \in Sockets : WF_vars(Alive /\ sockets[s].state # "open" /\ SocketCloses(s))

\* The process at work: the health checks passed, the stream's first socket
\* is open and subscribed, the loops are started. Signals arrive at any time,
\* the stream delivers rfq_request events, and executeTransaction is called
\* once.
StreamUp ==
    /\ ws = 1
    /\ isConnected = TRUE
    /\ shouldReconnect = TRUE
    /\ reconnectTimeout = NoTimer
    /\ sockets = [s \in Sockets |->
                    IF s = 1
                    THEN [state |-> "open", promise |-> "resolved", closedByUs |-> FALSE,
                          by |-> "connect", raised |-> FALSE, subscribes |-> 1]
                    ELSE Unmade]
    /\ timers = {}
    /\ timersMade = 0
    /\ clearedTimers = {}
    /\ disconnected = FALSE
    /\ disconnects = 0
    /\ lastOp = [op |-> "open", socket |-> 1]

InitShutdown ==
    /\ wsEnabled = TRUE /\ health = "ok" /\ shutdownArmed = FALSE /\ exitCode = NoExit
    /\ StreamUp /\ BidStart /\ WalletStart(0) /\ SweepIdle /\ RetryIdle
    /\ ApproveIdle /\ NotifyIdle

\* A process that exited takes no step.
NextShutdown ==
    \/ Signal
    \/ ExitTimerFires
    \/ \E batch \in Batches : Running /\ PollFetched(batch)
    \/ Running /\ PollFetchFails
    \/ Running /\ PollSigned
    \/ \E ok \in BOOLEAN : Running /\ PollProcessed(ok)
    \/ \E ok \in BOOLEAN : Running /\ WonBidsFetched(ok)
    \/ Running /\ PollWakes
    \/ \E id \in Ids : Running /\ isConnected /\ WsRfqRequest(id)
    \/ \E id \in Ids : Running /\ WsSigned(id)
    \/ \E id \in Ids, stage \in Stages, ok \in BOOLEAN : Running /\ WsProcessed(id, stage, ok)
    \/ Running /\ ExecuteTransaction(1)
    \/ Alive /\ EnterSection(1)
    \/ Alive /\ SyncNonceDone(1)
    \/ Alive /\ SyncNonceFails(1)
    \/ Alive /\ FnSucceeds(1)
    \/ \E msg \in {"pre", "post"} : Alive /\ FnFails(1, msg)

SpecShutdown == InitShutdown /\ [][NextShutdown]_vars

\* The polling loop and the stream's rfq_request events around the dedup map.
\* The bid_accepted branch (WsAcceptedStep) neither reads nor writes the map.
SpecBid == InitBid /\ [][NextBid]_vars

\* ------------------------------------------------- claims: WalletManager
InFn == {c \in Calls : wpc[c] = "fn"}
InSection == {c \in Calls : wpc[c] \in {"entered", "sync", "fn"}}
AllSettled == \A c \in Calls : wpc[c] = "done"
Broadcast(c) == fnOut[c].kind = "tx" \/ (fnOut[c].kind = "error" /\ fnOut[c].msg = "post")
NoncesUsed == {handed[i].nonce : i \in 1..Len(handed)}
SyncedEntries == SelectSeq(handed, LAMBDA h : h.synced)
LastHanded == handed[Len(handed)]

\* C4: for one WalletManager no two executions of the callback overlap, and no
\* two callbacks in flight at the same time were handed the same nonce.
C4_CallbacksNeverOverlap ==
    /\ Cardinality(InFn) <= 1
    /\ \A c, d \in InFn : c # d => NonceOf(c) # NonceOf(d)

\* C4 witness: one callback runs while another call waits for the section.
C4_Witness ==
    \E c, d \in Calls : wpc[c] = "fn" /\ wpc[d] = "waiting"

C6_SuccessIncrementsAndQueriesOnce ==
    /\ \A c \in Calls : wpc[c] = "sync" => currentNonce = Null
    /\ (Len(handed) > 0 /\ wpc[LastHanded.call] = "done"
            /\ fnOut[LastHanded.call].kind = "tx")
          => /\ currentNonce = LastHanded.nonce + 1
             /\ outcome[LastHanded.call] = [status |-> "resolved", v |-> fnOut[LastHanded.call]]
    /\ (\A c \in Calls : outcome[c].status # "rejected")
          => /\ Len(queryLog) <= 1
             /\ \A i \in 1..Len(handed) : handed[i].nonce = queryLog[1] + i - 1

\* C6 witness: every call succeeded, after exactly one ledger query.
C6_Witness ==
    /\ \A c \in Calls : outcome[c].status = "resolved"
    /\ Len(queryLog) = 1
    /\ Len(handed) = MaxCalls

\* C7: a callback that fails leaves the cache null, the section released and
\* its own error re-raised; the callback after a failed one runs only after a
\* fresh ledger query and is handed exactly the queried value.
C7_FailureResetsAndResyncs ==
    /\ (Len(handed) > 0 /\ wpc[LastHanded.call] = "done"
            /\ fnOut[LastHanded.call].kind = "error")
          => /\ currentNonce = Null
             /\ LastHanded.call \notin mutexHolder
             /\ outcome[LastHanded.call] = [status |-> "rejected", v |-> fnOut[LastHanded.call]]
    /\ \A i \in 2..Len(handed) :
          fnOut[handed[i - 1].call].kind = "error" => handed[i].synced
    /\ Len(SyncedEntries) = Len(queryLog)
    /\ \A k \in 1..Len(SyncedEntries) : SyncedEntries[k].nonce = queryLog[k]

\* C7 witness: a callback ran after a failed one, on a second ledger query.
C7_Witness ==
    \E i \in 2..Len(handed) :
        /\ fnOut[handed[i - 1].call].kind = "error"
        /\ handed[i].synced
        /\ Len(queryLog) >= 2

\* C8: callers enter the section in the order they called executeTransaction,
\* and when every entered section settles, every caller enters and settles:
\* no failure in a section keeps the lock held.
C8_FifoAndEveryCallerCompletes ==
    /\ [](/\ Len(entered) <= Len(callOrder)
          /\ \A i \in 1..Len(entered) : entered[i] = callOrder[i])
    /\ [](AllSettled => mutexHolder = {})
    /\ \A c \in Calls : (wpc[c] # "idle") ~> (wpc[c] = "done")

\* C8 witness: three concurrent callers settled although the first one's
\* ledger query failed and another one's callback failed.
C8_Witness ==
    /\ AllSettled /\ allConcurrent
    /\ outcome[callOrder[1]] = [status |-> "rejected", v |-> Failure(0, "rpc")]
    /\ \E c \in Calls : fnOut[c].kind = "error"
    /\ outcome[callOrder[Len(callOrder)]].status = "resolved"

\* C9: the cache is read and written only by the call that holds the section,
\* and a callback handed a cached (not freshly queried) nonce got the value
\* left by the section before it, which had completed successfully.
C9_CacheOnlyUnderTheSection ==
    /\ [](/\ Cardinality(mutexHolder) <= 1
          /\ InSection \subseteq mutexHolder
          /\ Len(handed) > 0 => handed[1].synced
          /\ \A i \in 2..Len(handed) :
                ~handed[i].synced
                    => /\ outcome[handed[i - 1].call].status = "resolved"
                       /\ handed[i].nonce = handed[i - 1].nonce + 1)
    /\ [][currentNonce' # currentNonce
            => \E c \in mutexHolder : wpc[c] \in {"sync", "fn"} /\ wpc'[c] # wpc[c]]_vars

\* C9 witness: a callback runs on a cached nonce while another call waits.
C9_Witness ==
    \E c, d \in Calls :
        /\ wpc[c] = "fn" /\ wpc[d] = "waiting"
        /\ \E i \in HandedTo(c) : ~handed[i].synced

\* -------------------------------------------------- claims: RFQ bidding loop
\* Requests with a processSingleRequest call that has not settled, per path.
PollInProcess == IF pollPc = "process" THEN {Head(pollBatch)} ELSE {}
WsInProcess == {id \in Ids : \E stage \in Stages : WsAt(id, stage)}
InProcess == PollInProcess \cup WsInProcess

\* submitBid calls for id that have not settled.
SubmitsInFlight(id) ==
    CopiesIn(Task(id, "submit"), wsTasks)
        + (IF pollPc = "process" /\ pollTask = "submit" /\ Head(pollBatch) = id THEN 1 ELSE 0)

Entries == {processedRequests[i] : i \in 1..Len(processedRequests)}
Age(e) == now - e.ts

\* C1: an id delivered by the polling loop and by the stream within one TTL
\* window gets exactly one submitBid call, in any interleaving. Stated for the
\* first window, before any id was ever marked: at time 0 with an empty map
\* (no sweep can have emptied it: nothing is an interval old, and a sweep for
\* size leaves MAX_PROCESSED_ENTRIES entries) no id has two submitBid calls
\* outstanding.
C1_OneSubmissionPerId ==
    (now = 0 /\ processedRequests = <<>>) => \A id \in Ids : SubmitsInFlight(id) <= 1

\* C2: whenever processing of an id is in progress, on either path, the id is
\* in the dedup map.
C2_ClaimedBeforeWork ==
    \A id \in InProcess : Has(processedRequests, id)

\* C3: no step starts processSingleRequest for an id that is in the dedup map
\* when the step begins, on either path and whatever the first processing
\* ended with.
C3_NeverProcessedAgain ==
    [][\A id \in Ids : Has(processedRequests, id) => id \notin lastStarted']_vars

\* C3 witness: r1, which only an await that threw leaves marked without a bid,
\* is observed again while its entry is not an interval old, and is skipped.
C3_Witness ==
    /\ dedupHit = {"r1"}
    /\ "r1" \notin bidsPlaced
    /\ "r1" \notin InProcess
    /\ \E e \in Entries : e.key = "r1" /\ ~IsStale(e.ts, now)

\* C10 as claimed: after a sweep no entry is left whose age is the interval
\* or more.
C10_NoEntryAtOrPastTheInterval ==
    justSwept => \A e \in Entries : Age(e) < CLEANUP_INTERVAL_MS

\* C10 as amended: after a sweep no entry is left whose age is more than the
\* interval; an entry whose age is exactly the interval is not deleted.
C10_NoEntryPastTheInterval ==
    justSwept => \A e \in Entries : Age(e) <= CLEANUP_INTERVAL_MS

\* C10 witness: a sweep has just run and left an entry exactly one interval old.
C10_Witness ==
    justSwept /\ \E e \in Entries : Age(e) = CLEANUP_INTERVAL_MS

\* ------------------------------------- claims: cleanupProcessedRequests alone
\* What a sweep of sweepInput at `now` took out for its age, and for size.
InputEntries == {sweepInput[i] : i \in 1..Len(sweepInput)}
PurgedForAge == {e \in InputEntries : IsStale(e.ts, now)}
EvictedForSize == (InputEntries \ PurgedForAge) \ Entries

\* C11: after a sweep the map holds at most MAX_PROCESSED_ENTRIES entries, and
\* every entry it kept is at least as recent as every entry it evicted for size.
C11_SweepBoundsAndEvictsOldest ==
    justSwept =>
        /\ Len(processedRequests) <= MAX_PROCESSED_ENTRIES
        /\ \A kept \in Entries, gone \in EvictedForSize : kept.ts >= gone.ts

\* C11 witness: a sweep evicted for size, and what it evicted was not first in
\* the map: the order of the timestamps decided, not the order of insertion.
C11_Witness ==
    /\ justSwept
    /\ EvictedForSize # {}
    /\ Len(processedRequests) = MAX_PROCESSED_ENTRIES
    /\ sweepInput[1] \in Entries

\* The entries of sweepInput that the TTL purge of a sweep at `now` leaves, and
\* those younger than the TTL.
PastTheTTL(e) == e.ts < now - CLEANUP_INTERVAL_MS
LeftByThePurge == {e \in InputEntries : ~PastTheTTL(e)}
Young == {e \in InputEntries : Age(e) < CLEANUP_INTERVAL_MS}

\* C39: a sweep never adds an entry and never changes a timestamp or the
\* order of the entries it keeps, and when the TTL purge leaves at most
\* MAX_PROCESSED_ENTRIES entries, every entry younger than the TTL is still in
\* the map with its timestamp.
C39_SweepRemovesOnlyWhatItMust ==
    justSwept =>
        /\ Entries \subseteq InputEntries
        /\ processedRequests = SelectSeq(sweepInput, LAMBDA e : e \in Entries)
        /\ Cardinality(LeftByThePurge) <= MAX_PROCESSED_ENTRIES => Young \subseteq Entries

\* C39 witness: a sweep purged an entry for its age and that left exactly the
\* maximum; nothing was evicted for size, and a young entry that came first in
\* the map is still first, with its timestamp.
C39_Witness ==
    /\ justSwept
    /\ InputEntries \ LeftByThePurge # {}
    /\ Cardinality(LeftByThePurge) = MAX_PROCESSED_ENTRIES
    /\ Entries = LeftByThePurge
    /\ sweepInput[1] \in Young
    /\ processedRequests[1] = sweepInput[1]

\* --------------------------------------------------------- claims: withRetry
LastInvocation == rLog[Len(rLog)]
AlwaysFailed == \A i \in 1..Len(rLog) : rLog[i].class # "ok"

\* Invocations that were followed by a delay() and another invocation.
Retried == {i \in 1..Len(rLog) : i < Len(rLog) \/ rPc = "wait"}

C13_SubmissionPolicyMakesThreeAttempts ==
    (rOpts = TX_RETRY_DEFAULTS /\ rPc = "done"
        /\ \A i \in 1..Len(rLog) : rLog[i].class \in {"nonce", "underpriced"})
      => Len(rLog) = 3 /\ rWaits = <<2000, 3000>>

\* C14: under isRetryableTxError a failure is retried only when it is a nonce
\* conflict or an underpriced replacement.
C14_TxRetriesOnlyConflicts ==
    (rOpts.retryableErrors = "isRetryableTxError" /\ rPc = "wait")
      => LastInvocation.class \in {"nonce", "underpriced"}

\* C15: under API_RETRY_DEFAULTS the operation is invoked at most 3 times, with
\* waits of 1000 ms then 2000 ms; an invocation is retried only when it failed
\* with a connection reset, a timeout, a DNS failure, HTTP 429 or HTTP 5xx, and
\* a failure with any other HTTP status ends the call with that error.
C15_ApiPolicy ==
    rOpts = API_RETRY_DEFAULTS =>
        /\ Len(rLog) <= 3
        /\ \E n \in 0..2 : rWaits = SubSeq(<<1000, 2000>>, 1, n)
        /\ \A i \in Retried :
              \/ rLog[i].class \in {"reset", "timeout", "dns"}
              \/ rLog[i].class = "http" /\ (rLog[i].status = 429 \/ rLog[i].status >= 500)
        /\ \A i \in 1..Len(rLog) :
              (rLog[i].class = "http" /\ rLog[i].status # 429 /\ rLog[i].status < 500)
                => /\ i = Len(rLog) /\ rPc = "done"
                   /\ rOutcome = [status |-> "rejected", v |-> rLog[i]]

\* C15 witness: a 503 and a 429 were retried after 1000 ms and 2000 ms, and
\* the 404 of the third attempt was propagated.
C15_Witness ==
    /\ rOpts = API_RETRY_DEFAULTS /\ rPc = "done"
    /\ Len(rLog) = 3 /\ rLog[1].status = 503 /\ rLog[2].status = 429
    /\ rWaits = <<1000, 2000>>
    /\ rOutcome = [status |-> "rejected", v |-> HttpError(404)]

\* Errors the predicate of the call's options takes for not retryable.
NotRetryable(error) ==
    \/ rOpts.retryableErrors = "never"
    \/ /\ rOpts.retryableErrors = "isRetryableApiError"
       /\ error.class = "http" /\ error.status # 429 /\ error.status < 500

\* C30: once an invocation has succeeded withRetry has resolved with its
\* result and no invocation follows; when withRetry rejects (after an
\* invocation) it rejects with the error of the last invocation; an invocation
\* that fails with a non-retryable error, or as the last attempt allowed, ends
\* the call with that error and no wait after it.
C30_FirstSuccessOrLastError ==
    Len(rLog) >= 1 =>
        /\ \A i \in 1..Len(rLog) :
              rLog[i].class = "ok"
                => /\ i = Len(rLog) /\ rPc = "done"
                   /\ rOutcome = [status |-> "resolved", v |-> rLog[i]]
        /\ rOutcome.status = "rejected"
              => rPc = "done" /\ rOutcome.v = LastInvocation /\ AlwaysFailed
        /\ (/\ LastInvocation.class # "ok"
            /\ NotRetryable(LastInvocation) \/ Len(rLog) >= rOpts.maxAttempts)
              => /\ rPc = "done"
                 /\ rOutcome = [status |-> "rejected", v |-> LastInvocation]
                 /\ Len(rWaits) = Len(rLog) - 1

\* C30 witnesses: a success on the second invocation, returned; a
\* non-retryable 404 after a retried 503, raised with a single wait behind it.
C30_Witness ==
    /\ rPc = "done" /\ rOpts = API_RETRY_DEFAULTS
    /\ Len(rLog) = 2 /\ rLog[1].status = 503 /\ Len(rWaits) = 1
    /\ \/ rOutcome = [status |-> "resolved", v |-> rLog[2]] /\ rLog[2].status = 200
       \/ rOutcome = [status |-> "rejected", v |-> HttpError(404)]

\* The k-th wait of a backoff that starts at initialDelayMs and is multiplied
\* k - 1 times: initialDelayMs * backoffMultiplier^(k-1), cut to maxDelayMs.
RECURSIVE Grown(_, _, _)
Grown(d, m, k) == IF k <= 1 THEN d ELSE Grown(Times(d, m), m, k - 1)

KthWait(opts, k) == Min(Grown(opts.initialDelayMs, opts.backoffMultiplier, k), opts.maxDelayMs)

\* The counts of a withRetry call: at least one invocation and at most
\* maxAttempts, a wait between any two invocations and none after the last.
RetryCounts ==
    /\ Len(rLog) <= rOpts.maxAttempts
    /\ rPc = "done" => Len(rLog) >= 1 /\ Len(rWaits) = Len(rLog) - 1
    /\ rPc = "wait" => Len(rWaits) = Len(rLog)
    /\ rPc = "call" => Len(rWaits) = Len(rLog)

\* C32 as stated: for any options with maxAttempts >= 1 the counts are as
\* above, the k-th wait is min(initialDelayMs * backoffMultiplier^(k-1),
\* maxDelayMs) when initialDelayMs <= maxDelayMs, and the waits are
\* non-decreasing and never exceed maxDelayMs.
C32_WaitsGrowUnderTheCap ==
    rOpts.maxAttempts >= 1 =>
        /\ RetryCounts
        /\ rOpts.initialDelayMs <= rOpts.maxDelayMs =>
              \A k \in 1..Len(rWaits) : rWaits[k] = KthWait(rOpts, k)
        /\ \A k \in 1..Len(rWaits) :
              /\ rWaits[k] <= rOpts.maxDelayMs
              /\ k > 1 => rWaits[k - 1] <= rWaits[k]

\* C32, amended: the first wait is initialDelayMs whatever maxDelayMs is, and
\* every later wait is at most maxDelayMs; the waits follow the formula, are
\* non-decreasing and stay under maxDelayMs when initialDelayMs <= maxDelayMs.
C32_WaitsGrowUnderTheCapFromTheSecond ==
    rOpts.maxAttempts >= 1 =>
        /\ RetryCounts
        /\ \A k \in 1..Len(rWaits) :
              /\ k = 1 => rWaits[k] = rOpts.initialDelayMs
              /\ k > 1 => rWaits[k] <= rOpts.maxDelayMs
              /\ k > 1 => rWaits[k] = Min(Times(rWaits[k - 1], rOpts.backoffMultiplier),
                                          rOpts.maxDelayMs)
        /\ rOpts.initialDelayMs <= rOpts.maxDelayMs =>
              \A k \in 1..Len(rWaits) :
                  /\ rWaits[k] = KthWait(rOpts, k)
                  /\ rWaits[k] <= rOpts.maxDelayMs
                  /\ k > 1 => rWaits[k - 1] <= rWaits[k]

\* Three invocations, the last one allowed, with a first wait under the cap and
\* a second wait that grew and was cut to it.
C32_Witness ==
    /\ rPc = "done"
    /\ rOpts.maxAttempts = 3 /\ Len(rLog) = 3
    /\ rOpts.initialDelayMs < rOpts.maxDelayMs
    /\ Len(rWaits) = 2
    /\ rWaits[1] = rOpts.initialDelayMs
    /\ rWaits[2] = rOpts.maxDelayMs
    /\ Times(rWaits[1], rOpts.backoffMultiplier) > rOpts.maxDelayMs

\* --------------------------------------- claims: approveTokenToExchangeProxy
\* wm.sendTransaction attempts made for approval c: the callbacks it ran.
SendAttempts(c) == Cardinality(HandedTo(c))

\* C16: a submission that failed with a sequence conflict is retried (with the
\* nonce queried again): no approval is settled by the conflict of a first and
\* only sendTransaction attempt.
C16_ConflictIsRetried ==
    \A c \in Approvals :
        (apc[c] = "done" /\ fnOut[c].kind = "error" /\ fnOut[c].msg = "nonce")
            => SendAttempts(c) >= 2

\* C17: when waitForTransaction is aborted by its timeout, or reports a failed
\* receipt, currentNonce is null, as long as no later call entered the section.
C17_AbortedWaitResetsNonce ==
    \A c \in Approvals :
        (/\ apc[c] = "done" /\ aOut[c].status = "rejected"
         /\ aOut[c].v.msg \in {"Transaction confirmation timeout", "Transaction failed"}
         /\ LastHanded.call = c /\ InSection = {})
            => currentNonce = Null

\* ------------------------------------------------- claims: OctarineWebSocket
\* Connection attempts in flight: sockets whose handshake is under way.
Attempts == {s \in Sockets : sockets[s].state = "connecting"}

\* C18: in every reachable state at most one reconnect timer is armed, with
\* the delay reconnectIntervalMs, and at most one connection attempt is in
\* flight.
C18_OneTimerOneAttempt ==
    /\ Cardinality(timers) <= 1
    /\ \A timer \in timers : timer.delayMs = reconnectIntervalMs
    /\ Cardinality(Attempts) <= 1

\* C19: from disconnect() until the application calls connect() again no
\* timer is armed (one that was pending is cleared, so it never fires; the
\* 'close' event of the socket disconnect() closed arms none) and no step
\* makes a socket.
C19_QuietAfterDisconnect ==
    /\ [](disconnected => timers = {} /\ reconnectTimeout = NoTimer /\ ws = NoSocket)
    /\ [][(disconnected /\ disconnected')
             => SocketsMade' = SocketsMade /\ timersMade' = timersMade]_vars

\* disconnect() cleared a pending timer, and the 'close' event of a socket it
\* closed was delivered afterwards; every socket is closed, nothing is armed.
C19_Witness ==
    /\ disconnected
    /\ clearedTimers # {}
    /\ \E s \in Sockets : sockets[s].state = "closed" /\ sockets[s].closedByUs
    /\ \A s \in Sockets : sockets[s].state \in {"none", "closed"}

\* The client's fields after disconnect(): no socket, not connected,
\* auto-reconnect disabled, no timer.
Disconnected ==
    /\ ws = NoSocket
    /\ ~isConnected
    /\ ~shouldReconnect
    /\ reconnectTimeout = NoTimer
    /\ timers = {}

\* C20: disconnect() leaves the client with no socket, not connected,
\* auto-reconnect disabled and no timer armed, whatever the state it is
\* called in, and a second call right after the first changes nothing.
C20_DisconnectIsIdempotent ==
    /\ [](disconnects >= 1 => Disconnected)
    /\ [][disconnects' = 2 => UNCHANGED <<ws, isConnected, shouldReconnect,
                                          reconnectTimeout, sockets, timers, timersMade>>]_vars

\* disconnect() was called twice in a row on a client that had a socket, or
\* on a client that never had one.
C20_Witness ==
    /\ disconnects = 2
    /\ Disconnected
    /\ SocketsMade \in {0, 2}

\* A socket the timer's callback made that failed before it opened.
FailedReconnect(s) ==
    /\ sockets[s].by = "timer"
    /\ sockets[s].state \in {"errored", "closed"}
    /\ sockets[s].promise # "resolved"

\* The client has an armed timer, or a socket that is connecting or open, or
\* one whose 'error' or 'close' event is on its way.
InPlay ==
    \/ timers # {}
    \/ \E s \in Sockets : sockets[s].state \notin {"none", "closed"}

\* C21: the failure of a socket the timer's callback made is never thrown to
\* the application; while auto-reconnect is on (no disconnect() since the last
\* connect()) a client that has connected once always has a timer or a socket
\* in play, and every failed reconnect attempt is followed by a new socket
\* (as long as the run may make one more).
C21_ReconnectsForever ==
    /\ [](\A s \in Sockets : sockets[s].by = "timer" => ~sockets[s].raised)
    /\ []((~disconnected /\ SocketsMade >= 1) => InPlay)
    /\ \A s \in Sockets :
          (FailedReconnect(s) /\ ~disconnected)
             ~> (SocketsMade > s \/ disconnected \/ SocketsMade = MaxSockets)

\* A reconnect attempt failed and its promise was rejected to the callback,
\* and the next timer made another socket.
C21_Witness ==
    \E s \in Sockets :
        /\ FailedReconnect(s) /\ sockets[s].promise = "rejected"
        /\ s + 1 \in Sockets /\ sockets[s + 1].by = "timer"
        /\ ~disconnected

\* Socket s opened, and then failed ('error') or closed.
LostConnection(s) ==
    sockets[s].promise = "resolved" /\ sockets[s].state \in {"errored", "closed"}

\* C22: with auto-reconnect on, the 'close' event of a socket leaves the
\* client not connected with a reconnect timer armed; and a socket that had
\* opened and then failed or closed leads to a new socket (or, when the run
\* may make no more, to the timer that would make it).
C22_LostConnectionReconnects ==
    /\ [][\A s \in Sockets :
            (sockets[s].state # "closed" /\ sockets'[s].state = "closed" /\ ~disconnected)
               => (~isConnected' /\ reconnectTimeout' # NoTimer
                   /\ \E timer \in timers' : timer.id = reconnectTimeout')]_vars
    /\ \A s \in Sockets :
          (LostConnection(s) /\ ~disconnected)
             ~> \/ SocketsMade > s
                \/ disconnected
                \/ SocketsMade = MaxSockets /\ timers # {}

\* A connected client's socket failed and closed, and the timer's callback has
\* just made the next socket.
C22_Witness ==
    /\ ~disconnected
    /\ lastOp.op = "timer"
    /\ \E s \in Sockets :
          /\ LostConnection(s) /\ sockets[s].state = "closed"
          /\ ws = s + 1 /\ sockets[ws].by = "timer" /\ sockets[ws].state = "connecting"

\* C23: a connect() promise is resolved only once its socket has opened and a
\* subscribe message was sent on it, a first attempt that fails before it opens
\* rejects the promise, and every connect() promise settles once its socket's
\* handshake has ended.
C23_ConnectSettlesRight ==
    /\ [](\A s \in Sockets : sockets[s].promise = "resolved" => sockets[s].subscribes >= 1)
    /\ []((lastOp.op = "connect" /\ lastOp.early)
              => /\ sockets[lastOp.socket].promise = "resolved"
                 /\ sockets[lastOp.socket].subscribes >= 1)
    /\ [](\A s \in Sockets :
              (sockets[s].by = "connect" /\ sockets[s].state \in {"errored", "closed"}
                  /\ sockets[s].promise # "resolved")
                 => sockets[s].promise = "rejected")
    /\ \A s \in Sockets :
          (sockets[s].promise = "pending" /\ sockets[s].state # "connecting")
             ~> (sockets[s].promise # "pending")

\* Messages that are not JSON, have a type the client does not know, or have
\* a type it knows without a payload.
Malformed(m) ==
    \/ ~m.json
    \/ m.type = "other"
    \/ m.type \in {"rfq_request", "liquidation", "bid_accepted"} /\ m.data = "missing"

\* C24: the step that handles a malformed message emits no event, leaves the
\* socket open and changes nothing of the connection's state.
C24_MalformedIsDropped ==
    /\ []((lastOp.op = "message" /\ Malformed(lastOp.msg))
             => /\ lastOp.emitted = NoEvent
                /\ sockets[lastOp.socket].state = "open")
    /\ [][(lastOp'.op = "message" /\ Malformed(lastOp'.msg))
             => UNCHANGED <<ws, isConnected, shouldReconnect, reconnectTimeout,
                            timers, sockets>>]_vars

\* The sockets that are in their handshake or open.
LiveSockets == {s \in Sockets : sockets[s].state \in {"connecting", "open"}}

\* C33: the client never has more than one socket connecting or open, and
\* getIsConnected() is true only while the socket in this.ws is open.
C33_OneLiveSocket ==
    /\ Cardinality(LiveSockets) <= 1
    /\ isConnected => ws # NoSocket /\ sockets[ws].state = "open"

\* The last step resolved the promise of a connect() call: the call returned
\* early, or the 'open' handler of its socket called resolve() first.
ConnectResolved ==
    \/ lastOp.op = "connect" /\ lastOp.early
    \/ lastOp.op = "open" /\ sockets[lastOp.socket].promise = "resolved"

\* C34: when a connect() promise resolves the client is connected: the socket
\* in this.ws is open and getIsConnected() is true.
C34_ResolvedMeansConnected ==
    ConnectResolved => isConnected /\ ws # NoSocket /\ sockets[ws].state = "open"

\* C35: every socket that opened has had the subscribe message sent on it
\* exactly once, by the 'open' handler, which sends it before it emits
\* 'connected' and before a 'message' event of the socket can be handled.
C35_SubscribedOnceOnOpen ==
    \A s \in Sockets :
        /\ sockets[s].subscribes <= 1
        /\ sockets[s].state = "open" => sockets[s].subscribes = 1

\* ------------------------------------------------------ claims: callTransform
\* C25: a callTransform call for a request whose transform has run, which the
\* server answers with 'Already executed', resolves.
C25_FinalizeTwiceSucceeds ==
    (transformNote # NoNote /\ transformNote.ranBefore /\ transformNote.reply = "already")
        => transformNote.outcome = "resolved"

\* monitorWonBids calls callTransform(id) in this step: the loop comes to a
\* bid whose transform key is not in the cache.
PollCallsTransform(id) ==
    /\ pollPc' = "transform"
    /\ Head(wonList') = id
    /\ pollPc # "transform" \/ wonList' # wonList

\* The bid_accepted branch of handleWebSocketEvent calls callTransform(id) in
\* this step.
WsCallsTransform(id) == id \in wsTransform' /\ id \notin wsTransform

\* A callTransform call of monitorWonBids settled in this step by throwing.
PollTransformFailed(id) ==
    /\ pollPc = "transform"
    /\ Head(wonList) = id
    /\ transformNote' # NoNote
    /\ transformNote'.outcome = "rejected"

\* C38: callTransform is never called, by monitorWonBids or by the stream's
\* bid_accepted handler, for a request whose transform has succeeded, and a
\* call of monitorWonBids that failed leaves the request without its
\* transform key, so that a later iteration calls it again.
C38_TransformOncePerWonRequest ==
    [][\A id \in Ids :
          /\ PollCallsTransform(id) \/ WsCallsTransform(id) => id \notin transformed'
          /\ PollTransformFailed(id) => ~Has(processedRequests', TransformKey(id))]_vars

\* The half of C38 that is about the retry, alone.
FailedTransformIsRetried ==
    [][\A id \in Ids :
          PollTransformFailed(id) => ~Has(processedRequests', TransformKey(id))]_vars

\* The half of C38 that is about monitorWonBids, alone.
PollTransformsOnce ==
    [][\A id \in Ids : PollCallsTransform(id) => id \notin transformed']_vars

\* ----------------------------------------------- claims: NotificationService
\* The send calls that the payloads up to `p`, notifier `n` excluded, make when
\* every notifier is called for every payload.
SendsBefore(p, n) == (p - 1) * notifiers + (n - 1)

SendFailed(i) == sendLog[i].how # "resolves"

\* C26: a failing or throwing send of a notifier never aborts the processing:
\* notify() can be called and returns whatever the sends did, processQueue
\* never rejects, every notifier is called for every payload in queue order
\* whether or not earlier sends failed, and once the drain loop is back to
\* idle nothing is left in the queue and all the sends were made.
C26_NotifierFailureIsContained ==
    /\ [pc |-> "rejected"] \notin drain
    /\ notified < MaxNotifications => ENABLED NotifyCalled
    /\ \A i \in 1..Len(sendLog) :
          /\ sendLog[i].payload \in 1..notified
          /\ sendLog[i].notifier \in 1..notifiers
          /\ SendsBefore(sendLog[i].payload, sendLog[i].notifier) = i - 1
    /\ \A p \in Payloads, n \in Notifiers :
          Sending(p, n) \in drain =>
              /\ isProcessing
              /\ SendsBefore(p, n) = Len(sendLog)
              /\ queue = [k \in 1..(notified - p) |-> p + k]
    /\ drain = NoDrain =>
          /\ ~isProcessing
          /\ queue = <<>>
          /\ Len(sendLog) = notified * notifiers

\* The first notifier's send failed for the first payload, in either way, and
\* everything that was notified went to both notifiers all the same.
C26_Witness ==
    /\ notifiers = 2
    /\ notified = MaxNotifications
    /\ drain = NoDrain
    /\ Len(sendLog) = 2 * MaxNotifications
    /\ SendFailed(1)
    /\ \E i \in 1..Len(sendLog) : sendLog[i].how = "throws"
    /\ \E i \in 1..Len(sendLog) : sendLog[i].how = "rejects"

\* The send calls made for payload p to notifier n.
SendsOf(p, n) == {i \in 1..Len(sendLog) : sendLog[i].payload = p /\ sendLog[i].notifier = n}

\* Payload p was handed to every notifier.
Delivered(p) == \A n \in 1..notifiers : SendsOf(p, n) # {}

\* C36: at most one drain loop is active; no notification is handed to a
\* notifier twice; the sends follow the order of the notify() calls; with no
\* drain loop active every accepted notification was handed to every notifier;
\* and a service with notifications disabled queues and sends nothing.
C36_OnceEachInOrderByOneLoop ==
    /\ Cardinality(drain) <= 1
    /\ \A p \in Payloads, n \in Notifiers : Cardinality(SendsOf(p, n)) <= 1
    /\ \A i, j \in 1..Len(sendLog) : i < j => sendLog[i].payload <= sendLog[j].payload
    /\ \A p \in Payloads, n \in Notifiers :
          Sending(p, n) \in drain => \A i \in 1..Len(sendLog) : sendLog[i].payload <= p
    /\ \A i \in 1..Len(queue) :
          /\ i > 1 => queue[i - 1] < queue[i]
          /\ \A n \in Notifiers : SendsOf(queue[i], n) = {}
    /\ drain = NoDrain =>
          \A p \in 1..notified, n \in 1..notifiers : Cardinality(SendsOf(p, n)) = 1
    /\ notifiers = 0 => queue = <<>> /\ sendLog = <<>> /\ drain = NoDrain

\* Two notify() calls arrived while the sends of the first payload were in
\* progress: the loop has handed the first payload to both notifiers, is sending
\* the second one, and the third one waits in the queue.
C36_Witness ==
    /\ notifiers = 2
    /\ drain = {Sending(2, 1)}
    /\ queue = <<3>>
    /\ Len(sendLog) = 2
    /\ Delivered(1)

\* C37: with every send terminating, each notification accepted by notify()
\* is in the end handed to every notifier, and the queue ends up empty with
\* isProcessing false.
C37_EveryNotificationIsDelivered ==
    /\ \A p \in Payloads : (notified >= p /\ notifiers > 0) ~> Delivered(p)
    /\ (queue # <<>> \/ isProcessing) ~> (queue = <<>> /\ ~isProcessing /\ drain = NoDrain)

\* Every notification the run allows was accepted and handed to both
\* notifiers, each send resolving, and the drain loop is over.
C37_Witness ==
    /\ notifiers = 2
    /\ notified = MaxNotifications
    /\ \A p \in Payloads : Delivered(p)
    /\ queue = <<>> /\ ~isProcessing /\ drain = NoDrain
    /\ \A i \in 1..Len(sendLog) : sendLog[i].how = "resolves"

\* ------------------------------------------------------- claims: the process
\* The step is one in which the processSingleRequest call of the polling loop
\* settled.
PollSettles == pollPc = "process" /\ (pollBatch' # pollBatch \/ pollPc' # "process")

\* C27: no failure while one request is processed ends the polling loop or the
\* process. Whatever way processSingleRequest settles, its request is marked and
\* each of the remaining requests of the batch is still to come in the for
\* loop, or was skipped as processed or declined and marked; the loop always
\* has a next step; and the process exits with code 1 only when requireHealthy
\* threw at startup.
C27_FailureNeverEndsTheLoop ==
    /\ [][PollSettles =>
            /\ Has(processedRequests', Head(pollBatch))
            /\ \A i \in 2..Len(pollBatch) :
                  \/ \E j \in 1..Len(pollBatch') : pollBatch'[j] = pollBatch[i]
                  \/ Has(processedRequests', pollBatch[i])]_vars
    /\ [](Running => ENABLED (Running /\ PollStep))
    /\ [](exitCode # NoExit <=> health = "failed")
    /\ [](exitCode \in {NoExit, "1"})

\* Processing r1 failed (it is marked, and no bid was placed for it) and the
\* loop is processing r2, the request after it in the batch.
C27_Witness ==
    /\ Running
    /\ pollPc = "process"
    /\ Head(pollBatch) = "r2"
    /\ Has(processedRequests, "r1")
    /\ "r1" \notin bidsPlaced
    /\ lastStarted = {"r2"}

\* C28: a stream that never connects, or that fails, leaves the process
\* polling: once the health checks passed the process does not exit, the
\* polling loop is started, and a request the loop fetched and took up is
\* marked processed.
C28_StreamFailureLeavesPolling ==
    /\ [](health = "ok" => Alive)
    /\ (health = "ok") ~> LoopsStarted
    /\ \A id \in Ids :
          (Running /\ pollPc = "process" /\ Head(pollBatch) = id)
              ~> Has(processedRequests, id)

\* C29: after a shutdown signal the poller and the stream client start the
\* processing of no request, and the process does not exit while a call is
\* inside the exclusive section of executeTransaction.
C29_ShutdownIsGraceful ==
    /\ [][shutdownArmed /\ bidVars' # bidVars => lastStarted' = {}]_vars
    /\ [](~Alive => mutexHolder = {})

\* --------------------------------------------------- claims: shouldBidOnRequest
\* The step takes up the work on request id: the polling loop awaits its
\* processSingleRequest call, a stream task is added for it, or a bid is placed.
WorkedOn(id) ==
    \/ pollPc' = "process" /\ pollBatch' # <<>> /\ Head(pollBatch') = id
         /\ (pollPc # "process" \/ pollBatch' # pollBatch)
    \/ \E stage \in Stages :
          CopiesIn(Task(id, stage), wsTasks') > CopiesIn(Task(id, stage), wsTasks)
    \/ id \in bidsPlaced' \ bidsPlaced

\* C31: a request that shouldBidOnRequest rejects gets no approval, no signing
\* and no submission: the step that calls processSingleRequest for it takes up
\* no work on it and leaves it marked in the map; and processSingleRequest is
\* called for no request that the map holds.
C31_RejectedIsLeftAlone ==
    [][\A id \in Ids :
          id \in lastStarted' /\ bidVars' # bidVars =>
              /\ ~Has(processedRequests, id)
              /\ ~shouldBidOnRequest(Request(id), Cfg, now) =>
                    /\ ~WorkedOn(id)
                    /\ Has(processedRequests', id)]_vars

\* The polling loop called processSingleRequest for r2 alone, too close to its
\* expiry: it is marked, no bid of ours is placed for it, and the loop is on
\* to monitorWonBids.
C31_Witness ==
    /\ ~shouldBidOnRequest(Request("r2"), Cfg, now)
    /\ lastStarted = {"r2"}
    /\ Has(processedRequests, "r2")
    /\ "r2" \notin bidsPlaced
    /\ pollPc = "wonBids"

====
